---- MODULE Spec2Model ----
(***************************************************************************)
(* Incremental synchronisation engine of the Congress.gov ingestion        *)
(* scripts: the reconcile-and-upsert loop of update_database, the          *)
(* transaction wrapper with_db_transaction around it, and the sync-status  *)
(* bookkeeping of main() in bill_fetch_core.py.                            *)
(*                                                                         *)
(* Time is a small integer civil clock.  An upstream updateDate is an ISO  *)
(* string, modelled by its form (absent, garbled, iso), its civil reading  *)
(* and its zone suffix; the code parses it and strips the offset.  The     *)
(* data columns of a bills row are represented by bill_title.              *)
(***************************************************************************)
EXTENDS Integers, Sequences, FiniteSets, TLC

\* ---------------------------------------------------------------- bounds
MaxTime == 2

MaxBatch == 2

MaxPages == 2

\* Largest number of items the upstream holds behind a paginated endpoint.
MaxItems == 3

\* Longest work list handed to process_bill_batch / process_member_batch.
MaxWork == 3

\* Largest max_retries a RetryStrategy is built with (the default is 3).
MaxRetries == 3

\* Longest work list of like elements given to a batch processor: longer than
\* MAX_WORKERS, so that a batch can hold more elements than the pool has
\* threads.
MaxLoad == 6

\* Number of current members, and of runs of member enrichment in a row.
MaxMembers == 3

MaxRuns == 2

\* Number of runs of the bill list sync that may overlap on one status row.
MaxSyncRuns == 3

\* Longest list payload given to get_bill_data.
MaxEntries == 2

\* Longest party name given to parse_party_name, in words.
MaxWords == 2

\* Longest bill number given to parse_bill_number, in characters.
MaxLen == 3

\* Longest action text given to normalize_bill_status, in phrases.
MaxTerms == 3

\* Longest list of text versions given to process_text_versions.
MaxVersions == 2

\* ------------------------------------------------------------ input sets
BillNumbers == {"HR1", "S2"}

Titles == {"t1", "t2"}

PolicyNames == {"Health"}

NoPolicy == "none"

\* NULL in a timestamp column (falsy in `if db_update_date`).
NullTs == 0

\* NULL in the congress column, None in a payload.
NoCongress ==
  0

\* The congresses whose bills are historical.
HistoricalFirst == 6

HistoricalLast == 42

\* is_historical_bill: int(congress) in 6..42, False for None.
IsHistoricalBill(c) ==
  c # NoCongress /\ HistoricalFirst <= c /\ c <= HistoricalLast

Times == 1..MaxTime

AbsentDate == [form |-> "absent", civil |-> NullTs, zone |-> ""]

GarbledDate == [form |-> "garbled", civil |-> NullTs, zone |-> ""]

IsoDates == [form : {"iso"}, civil : Times, zone : {"Z"}]

UpdateDates == {AbsentDate, GarbledDate} \cup IsoDates

\* One element of the upstream list: {'bill': <payload>}.  kind "empty" is the
\* empty-list payload; defect names what is wrong with a dict payload:
\*   malformed   latestAction is null, so line 144 raises AttributeError
\*   bad_upsert  the bills upsert violates a store constraint (database error)
\*   bad_tag     the tag insert violates a store constraint (database error)
\* HR1 is delivered in every variant; S2 is the neighbouring record of a batch
\* and comes in fewer.  congress is 118 or, for the untagged neighbour and the
\* defective records, the historical congress 42.
EmptyPayload ==
  [kind |-> "empty", number |-> "", title |-> "", updateDate |-> AbsentDate,
   policy |-> NoPolicy, defect |-> "none", congress |-> NoCongress]

SoundRecords ==
  [kind : {"dict"}, number : {"HR1"}, title : Titles,
   updateDate : UpdateDates, policy : {NoPolicy}, defect : {"none"},
   congress : {118}]

NeighbourRecords ==
  [kind : {"dict"}, number : {"S2"}, title : {"t1"},
   updateDate : {AbsentDate},
   policy : {NoPolicy}, defect : {"none"}, congress : {HistoricalLast}]

TaggedRecords ==
  [kind : {"dict"}, number : BillNumbers, title : {"t1"},
   updateDate : {AbsentDate}, policy : PolicyNames,
   defect : {"none", "bad_tag"}, congress : {118}]

DefectRecords ==
  [kind : {"dict"}, number : {"HR1"}, title : {"t1"},
   updateDate : {AbsentDate}, policy : {NoPolicy},
   defect : {"malformed", "bad_upsert"}, congress : {HistoricalLast}]

Records ==
  SoundRecords \cup NeighbourRecords \cup TaggedRecords \cup DefectRecords
    \cup {EmptyPayload}

\* The key under which the upstream list holds an element; the list endpoint
\* delivers each bill once.
ListKey(rec) ==
  IF rec.kind = "empty" THEN "empty" ELSE rec.number

DistinctKeys(s) ==
  \A i, j \in DOMAIN s : i # j => ListKey(s[i]) # ListKey(s[j])

RECURSIVE SeqsUpTo(_, _)
SeqsUpTo(S, n) ==
  IF n = 0 THEN {<<>>}
  ELSE LET shorter == SeqsUpTo(S, n - 1)
       IN shorter \cup
          {Append(s, x) : s \in {t \in shorter : Len(t) = n - 1}, x \in S}

Batches ==
  {s \in SeqsUpTo(Records, MaxBatch) : DistinctKeys(s)}

\* ------------------------------------------------------------- the store
\* A bills row.  upstream is a history field, no column of the table: the
\* civil updateDate of the upstream version the row was last written from.
NoRow ==
  [exists |-> FALSE, title |-> "", last_updated |-> NullTs, upstream |-> NullTs]

EmptyDb ==
  [bills |-> [n \in BillNumbers |-> NoRow], tags |-> {}, bill_tags |-> {}]

ZeroStats ==
  [inserted |-> 0, updated |-> 0, skipped |-> 0, error |-> 0,
   historical |-> 0]

VARIABLES
  now,          \* the store's clock (CURRENT_TIMESTAMP)
  db,           \* committed contents of bills, tags, bill_tags
  tx,           \* the open transaction of update_database
  pc,           \* position of the running script
  batch,        \* argument of the current / last update_database call
  idx,          \* next element of batch to process
  stats,        \* the stats dictionary of update_database
  outcomes,     \* history: per element of batch, the bucket it was counted in
  replay,       \* this call applies again the batch of the call before it
  prevOutcomes, \* history: the outcomes of the first of the two applications
  sync,         \* the api_sync_status row of the bills endpoint
  run,          \* locals of main() and what this run has done so far
  lastOk        \* history: when the latest run that ended success wrote it

\* The state of the other parts of the scripts, each described where its
\* operations are.
VARIABLES
  writers,            \* two list syncs running at the same time on one store
  congress,           \* the congress column of the bills table
  firstCongress,      \* history: the congress each row was inserted with
  known_bills,        \* DatabaseUpdater.known_bills, the set read at start-up
  retry,              \* one call of RetryStrategy.execute
  pager,              \* one call of get_paginated / fetch_all
  pool,               \* one call of process_bill_batch / process_member_batch
  catalog,            \* the bills table as the validation queries see it
  reported,           \* what a validation or sweep query returned
  bill_number,        \* argument of parse_bill_number
  parsed,             \* its result
  action_text,        \* argument of normalize_bill_status
  normalized_status,  \* its result
  versions,           \* arguments of process_text_versions
  sorted_versions     \* its result

VARIABLES
  party,              \* argument of parse_party_name
  party_result,       \* its result
  bill_payload,       \* argument of get_bill_data
  selected_bill,      \* its result
  endpoint,           \* the status row of an endpoint and two runs of its sync
  enrichment          \* the runs of member enrichment and their status row

coreVars ==
  <<now, db, tx, pc, batch, idx, stats, outcomes, replay, prevOutcomes,
    sync, run, lastOk>>

overlapVars == <<writers>>

congressVars == <<congress, firstCongress, known_bills>>

retryVars == <<retry>>

pagerVars == <<pager>>

poolVars == <<pool>>

sweepVars == <<catalog, reported>>

parseVars == <<bill_number, parsed>>

statusVars == <<action_text, normalized_status>>

textVars == <<versions, sorted_versions>>

partyVars == <<party, party_result>>

selectVars == <<bill_payload, selected_bill>>

\* The pure functions of bill_utils.py, member_utils.py and
\* bill_fetch_core.py, and process_text_versions.
functionVars == <<parseVars, statusVars, textVars, partyVars, selectVars>>

statusRowVars == <<endpoint>>

enrichmentVars == <<enrichment>>

\* Everything update_database and main() of bill_fetch_core.py leave alone.
beyondCore ==
  <<overlapVars, congressVars, retryVars, pagerVars, poolVars, sweepVars,
    functionVars, statusRowVars, enrichmentVars>>

\* What the operations of each other part leave alone.
beyondOverlap ==
  <<congressVars, retryVars, pagerVars, poolVars, sweepVars, functionVars,
    statusRowVars, enrichmentVars>>

beyondCongress ==
  <<coreVars, overlapVars, retryVars, pagerVars, poolVars, sweepVars,
    functionVars, statusRowVars, enrichmentVars>>

beyondRetry ==
  <<coreVars, overlapVars, congressVars, pagerVars, poolVars, sweepVars,
    functionVars, statusRowVars, enrichmentVars>>

beyondPager ==
  <<coreVars, overlapVars, congressVars, retryVars, poolVars, sweepVars,
    functionVars, statusRowVars, enrichmentVars>>

beyondPool ==
  <<coreVars, overlapVars, congressVars, retryVars, pagerVars, sweepVars,
    functionVars, statusRowVars, enrichmentVars>>

beyondSweep ==
  <<coreVars, overlapVars, congressVars, retryVars, pagerVars, poolVars,
    functionVars, statusRowVars, enrichmentVars>>

beyondFunctions ==
  <<coreVars, overlapVars, congressVars, retryVars, pagerVars, poolVars,
    sweepVars, statusRowVars, enrichmentVars>>

beyondStatusRow ==
  <<coreVars, overlapVars, congressVars, retryVars, pagerVars, poolVars,
    sweepVars, functionVars, enrichmentVars>>

beyondEnrichment ==
  <<coreVars, overlapVars, congressVars, retryVars, pagerVars, poolVars,
    sweepVars, functionVars, statusRowVars>>

\* What member enrichment, which writes bills rows, leaves alone.
beyondEnrichmentAndBills ==
  <<coreVars, overlapVars, retryVars, pagerVars, poolVars, sweepVars,
    functionVars, statusRowVars>>

vars ==
  <<coreVars, beyondCore>>

NoTx ==
  [bills |-> EmptyDb.bills, tags |-> {}, bill_tags |-> {},
   aborted |-> FALSE, ts |-> NullTs]

\* ------------------------------------------------ update_database, per bill
\* get_bill_data: None for an empty list payload, else the bill dictionary.
GetBillData(rec) ==
  IF rec.kind = "empty" THEN [found |-> FALSE, bill |-> rec]
  ELSE [found |-> TRUE, bill |-> rec]

\* bill.get('updateDate') is truthy.
HasUpdateDate(bill) ==
  bill.updateDate.form # "absent"

\* datetime.fromisoformat(...) succeeds.
ParsesAsIso(d) ==
  d.form = "iso"

\* fromisoformat(...).replace(tzinfo=None): the civil reading, offset dropped.
StripOffset(d) ==
  d.civil

ShouldSkipStrict(db_update_date, bill_update_date) ==
  db_update_date # NullTs /\ db_update_date > bill_update_date

\* `if db_update_date and db_update_date >= bill_update_date`
ShouldSkip(db_update_date, bill_update_date) ==
  db_update_date # NullTs /\ db_update_date >= bill_update_date

\* The first statement on a psycopg2 connection opens the transaction;
\* CURRENT_TIMESTAMP is the start time of the transaction.
BeginTx(t, clock) ==
  IF t.ts = NullTs THEN [t EXCEPT !.ts = clock] ELSE t

\* A statement that raises a database error leaves the transaction aborted.
AbortTx(t) ==
  [t EXCEPT !.aborted = TRUE]

\* INSERT INTO bills ... ON CONFLICT (bill_number) DO UPDATE ... RETURNING id
UpsertBill(t, bill) ==
  [t EXCEPT !.bills[bill.number] =
     [exists |-> TRUE, title |-> bill.title, last_updated |-> t.ts,
      upstream |-> StripOffset(bill.updateDate)]]

\* get_or_create_policy_area_tag followed by update_bill_tags
TagBill(t, bill) ==
  [t EXCEPT !.tags = @ \cup {bill.policy},
            !.bill_tags = @ \cup {<<bill.number, bill.policy>>}]

\* Lines 183-225: upsert, policy-area tag, then the stats bucket.
WriteBill(t, bill, existed) ==
  IF bill.defect = "bad_upsert"
  THEN [tx |-> AbortTx(t), outcome |-> "error"]
  ELSE LET t2 == UpsertBill(t, bill)
       IN IF bill.policy = NoPolicy
          THEN [tx |-> t2, outcome |-> IF existed THEN "updated" ELSE "inserted"]
          ELSE IF bill.defect = "bad_tag"
          THEN [tx |-> AbortTx(t2), outcome |-> "error"]
          ELSE [tx |-> TagBill(t2, bill),
                outcome |-> IF existed THEN "updated" ELSE "inserted"]

\* One iteration of the for loop of update_database (lines 128-229).
ProcessBill(t, rec, clock) ==
  LET got == GetBillData(rec)
      bill == got.bill
  IN IF ~got.found
     THEN [tx |-> t, outcome |-> "skipped"]
     ELSE IF bill.defect = "malformed"
     THEN [tx |-> t, outcome |-> "error"]
     ELSE IF t.aborted
     THEN [tx |-> t, outcome |-> "error"]
     ELSE LET t1 == BeginTx(t, clock)
              existing == t1.bills[bill.number]
          IN IF existing.exists /\ HasUpdateDate(bill)
             THEN IF ~ParsesAsIso(bill.updateDate)
                  THEN [tx |-> t1, outcome |-> "error"]
                  ELSE IF ShouldSkip(existing.last_updated,
                                     StripOffset(bill.updateDate))
                  THEN [tx |-> t1, outcome |-> "skipped"]
                  ELSE WriteBill(t1, bill, TRUE)
             ELSE WriteBill(t1, bill, existing.exists)

\* stats["historical"] += 1 (lines 148-151) is reached when get_bill_data
\* returned a bill and the extraction of its fields raised nothing; it comes
\* before the SELECT, so also when that raises.
CountsHistorical(rec) ==
  LET got == GetBillData(rec)
  IN /\ got.found
     /\ got.bill.defect # "malformed"
     /\ IsHistoricalBill(got.bill.congress)

BumpHistorical(s, rec) ==
  IF CountsHistorical(rec) THEN [s EXCEPT !.historical = @ + 1] ELSE s

BumpUnlessError(s, outcome) ==
  IF outcome = "error" THEN s ELSE [s EXCEPT ![outcome] = @ + 1]

\* The bucket of the element: stats[...] += 1.
Bump(s, outcome) ==
  [s EXCEPT ![outcome] = @ + 1]

\* conn.commit() of with_db_transaction: the store turns the COMMIT of an
\* aborted transaction into a rollback and reports no error.
CommitTx(d, t) ==
  IF t.aborted THEN d
  ELSE [bills |-> t.bills, tags |-> t.tags, bill_tags |-> t.bill_tags]

\* ------------------------------------------------------- sync status, main
NoSyncRow ==
  [exists |-> FALSE, status |-> "", last_sync_timestamp |-> NullTs,
   last_error |-> ""]

\* update_sync_status: upsert keyed on endpoint, one row per endpoint.
UpdateSyncStatus(status, error, clock) ==
  [exists |-> TRUE, status |-> status, last_sync_timestamp |-> clock,
   last_error |-> error]

\* get_last_sync_timestamp: the row of the endpoint if its status is success.
GetLastSyncTimestamp(row) ==
  IF row.exists /\ row.status = "success"
  THEN [found |-> TRUE, at |-> row.last_sync_timestamp]
  ELSE [found |-> FALSE, at |-> NullTs]

\* --days of the command line.
LookbackDays == 1

Unbounded ==
  [bounded |-> FALSE, at |-> NullTs]

\* --start-date: not given, not a %Y-%m-%d date, or a date.
StartDates ==
  [form : {"none", "invalid"}, at : {NullTs}] \cup [form : {"date"}, at : Times]

IdleRun ==
  [active |-> FALSE, force_full |-> FALSE,
   start_date |-> [form |-> "none", at |-> NullTs], from_date |-> Unbounded,
   requests |-> 0, fetched |-> <<>>, marked |-> FALSE, called |-> FALSE,
   exc |-> "", final |-> ""]

\* Lines 301-309: the start of the fetch window.
SelectFromDate(r, row) ==
  IF ~r.force_full /\ r.start_date.form = "none"
  THEN LET last_sync == GetLastSyncTimestamp(row)
       IN IF last_sync.found
          THEN [bounded |-> TRUE, at |-> last_sync.at - LookbackDays]
          ELSE r.from_date
  ELSE r.from_date

AfterWindowFetchFirst ==
  "fetch"

\* The statement main() reaches after the window is selected (line 312).
AfterWindow ==
  "mark"

\* The status main() writes when no exception escaped (line 364).
CompletionStatus(errors) ==
  "success"

\* What one list page of the upstream may hold in a run of main().
PageRecords ==
  {r \in SoundRecords \cup DefectRecords :
     r.title = "t1" /\ r.updateDate = AbsentDate /\ r.defect # "bad_upsert"}

PageItems ==
  {<<>>} \cup {<<r>> : r \in PageRecords}

\* ------------------------------------------- the other parts, before a call
Runs ==
  {"A", "B"}

IdleWriter ==
  [pc |-> "idle", bill |-> EmptyPayload, ts |-> NullTs, seen |-> NoRow,
   wrote |-> FALSE]

NoWriters ==
  [run |-> [r \in Runs |-> IdleWriter], overlapped |-> FALSE]

OverlapIdle ==
  writers = NoWriters

CongressIdle ==
  /\ congress = [n \in BillNumbers |-> NoCongress]
  /\ firstCongress = [n \in BillNumbers |-> NoCongress]
  /\ known_bills = {}

NoRetry ==
  [max_retries |-> 0, base_delay |-> 1, attempt |-> 0, calls |-> 0,
   failures |-> <<>>, slept |-> <<>>, state |-> "idle", value |-> "",
   raised |-> ""]

RetryIdle ==
  retry = NoRetry

NoPager ==
  [fn |-> "", total |-> 0, reports_count |-> FALSE, always_next |-> FALSE,
   start |-> 0, limit |-> 1, offset |-> 0, total_count |-> 0,
   requests |-> <<>>, all_items |-> <<>>, state |-> "idle"]

PagerIdle ==
  pager = NoPager

ZeroBatchStats ==
  [total |-> 0, processed |-> 0, success |-> 0, failed |-> 0, historical |-> 0]

NoPool ==
  [fn |-> "", work |-> <<>>, batch_size |-> 1, parallel |-> FALSE, i |-> 0,
   mode |-> "", queued |-> {}, running |-> {}, finished |-> {},
   harvested |-> {}, out_of_order |-> FALSE, stats |-> ZeroBatchStats,
   dry_run |-> FALSE, logged |-> {}, fetched |-> {}, written |-> {},
   times |-> [k \in 1..MaxLoad |-> 0], batches |-> <<>>,
   state |-> "idle"]

PoolIdle ==
  pool = NoPool

NoBill ==
  [congress |-> NoCongress, summary |-> FALSE, policy_tag |-> FALSE,
   other_tag |-> FALSE, subjects |-> FALSE, cosponsors |-> FALSE,
   sponsor |-> FALSE, text_versions |-> FALSE, actions |-> FALSE]

NothingReported ==
  [by |-> "", excluding |-> FALSE, missing |-> {}]

SweepIdle ==
  /\ catalog = NoBill
  /\ reported = NothingReported

NotParsed ==
  [state |-> "idle", bill_type |-> <<>>, number |-> <<>>]

ParseIdle ==
  /\ bill_number = <<>>
  /\ parsed = NotParsed

None == "None"

NotNormalized ==
  [state |-> "idle", status |-> None]

StatusIdle ==
  /\ action_text = <<>>
  /\ normalized_status = NotNormalized

\* A date that is None; as a sort key it is '', below every date.
NullDate == 0

NoVersions ==
  [list |-> <<>>, introduced_date |-> NullDate]

NotSorted ==
  [state |-> "idle", list |-> <<>>]

TextIdle ==
  /\ versions = NoVersions
  /\ sorted_versions = NotSorted

NoPartyResult ==
  [state |-> "idle", standard |-> "", name |-> <<>>, code |-> ""]

PartyIdle ==
  /\ party = <<>>
  /\ party_result = NoPartyResult

NoEntry ==
  [title |-> "", dated |-> FALSE, updateDate |-> <<>>]

NoPayload ==
  [kind |-> "list", entries |-> <<>>]

NotSelected ==
  [state |-> "idle", found |-> FALSE, entry |-> NoEntry]

SelectIdle ==
  /\ bill_payload = NoPayload
  /\ selected_bill = NotSelected

\* No status row yet, and no run of the sync started.  written_by is history:
\* the run whose update_sync_status wrote the row last.
NoEndpoint ==
  [row |-> NoSyncRow,
   written_by |-> 0,
   runs |-> [r \in 1..MaxSyncRuns |-> "not started"]]

StatusRowIdle ==
  endpoint = NoEndpoint

\* last_error of the status row: NULL, 'Error processing member X: ...' or
\* 'An unexpected error occurred: ...'.
NoError ==
  [kind |-> "null", member |-> 0]

NoItem ==
  [number |-> "", known |-> FALSE, skipped |-> FALSE, wrote |-> FALSE]

\* No run of member enrichment has started and the endpoint has no status row.
NoEnrichment ==
  [pc |-> "idle", runs |-> 0,
   status_row |-> [status |-> "none", last_error |-> NoError],
   at_start |-> [status |-> "none", last_error |-> NoError],
   resumed_after |-> 0, selected |-> {}, todo |-> {}, processed |-> {},
   item |-> NoItem]

EnrichmentIdle ==
  enrichment = NoEnrichment

\* The parts declared last, before a call.
RestIdle ==
  /\ PartyIdle
  /\ SelectIdle
  /\ StatusRowIdle
  /\ EnrichmentIdle

\* ---------------------------------------------------------------- actions
CoreInit ==
  /\ now = 1
  /\ db = EmptyDb
  /\ tx = NoTx
  /\ pc = "idle"
  /\ batch = <<>>
  /\ idx = 1
  /\ stats = ZeroStats
  /\ outcomes = <<>>
  /\ replay = FALSE
  /\ prevOutcomes = <<>>
  /\ sync = NoSyncRow
  /\ run = IdleRun
  /\ lastOk = NullTs

Init ==
  /\ CoreInit
  /\ OverlapIdle
  /\ CongressIdle
  /\ RetryIdle
  /\ PagerIdle
  /\ PoolIdle
  /\ SweepIdle
  /\ ParseIdle
  /\ StatusIdle
  /\ TextIdle
  /\ RestIdle

\* The store's clock advances.  It is read by the first statement of a
\* transaction and by each status write; a tick is taken where the script
\* waits (between calls, during the fetch, before the final status write),
\* which yields every sequence of values those reads can see.
Tick ==
  /\ now < MaxTime
  /\ pc \in {"idle", "returned", "fetch", "final"}
  /\ now' = now + 1
  /\ UNCHANGED <<db, tx, pc, batch, idx, stats, outcomes, replay, prevOutcomes,
                 sync, run, lastOk>>
  /\ UNCHANGED beyondCore

\* with_db_transaction opens a connection and calls update_database(bills).
EnterUpdateDatabase(b, again) ==
  /\ pc' = "loop"
  /\ batch' = b
  /\ idx' = 1
  /\ stats' = ZeroStats
  /\ outcomes' = <<>>
  /\ tx' = [bills |-> db.bills, tags |-> db.tags, bill_tags |-> db.bill_tags,
            aborted |-> FALSE, ts |-> NullTs]
  /\ replay' = again
  /\ prevOutcomes' = IF again THEN outcomes ELSE <<>>
  /\ UNCHANGED <<now, db>>

\* update_database called on a batch outside of a run of main().
CallUpdateDatabase(b) ==
  /\ pc = "idle"
  /\ EnterUpdateDatabase(b, FALSE)
  /\ UNCHANGED <<sync, run, lastOk>>
  /\ UNCHANGED beyondCore

\* The caller holds the returned stats and applies the same batch once more.
CallAgain ==
  /\ pc = "returned"
  /\ ~replay
  /\ EnterUpdateDatabase(batch, TRUE)
  /\ UNCHANGED <<sync, run, lastOk>>
  /\ UNCHANGED beyondCore

\* The caller is done with the returned stats; the call's locals are gone.
Discard ==
  /\ pc = "returned"
  /\ pc' = "idle"
  /\ batch' = <<>>
  /\ idx' = 1
  /\ stats' = ZeroStats
  /\ outcomes' = <<>>
  /\ replay' = FALSE
  /\ prevOutcomes' = <<>>
  /\ UNCHANGED <<now, db, tx, sync, run, lastOk>>
  /\ UNCHANGED beyondCore

ProcessRecord ==
  /\ pc = "loop"
  /\ idx <= Len(batch)
  /\ LET r == ProcessBill(tx, batch[idx], now)
     IN /\ tx' = r.tx
        /\ stats' = BumpHistorical(Bump(stats, r.outcome), batch[idx])
        /\ outcomes' = Append(outcomes, r.outcome)
  /\ idx' = idx + 1
  /\ UNCHANGED <<now, db, pc, batch, replay, prevOutcomes, sync, run, lastOk>>
  /\ UNCHANGED beyondCore

\* The loop is over: return stats, conn.commit(), close.
Commit ==
  /\ pc = "loop"
  /\ idx > Len(batch)
  /\ db' = CommitTx(db, tx)
  /\ tx' = NoTx
  /\ pc' = IF run.active THEN "final" ELSE "returned"
  /\ UNCHANGED <<now, batch, idx, stats, outcomes, replay, prevOutcomes,
                 sync, run, lastOk>>
  /\ UNCHANGED beyondCore

\* update_database of bill_fetch.py, the older list fetch, on a list of one
\* bill: its upsert names no last_updated, so a row it inserts holds NULL there
\* and a row it updates keeps what it had.
LegacyUpsert(n, title) ==
  /\ pc = "idle"
  /\ db' = [db EXCEPT !.bills[n] =
              [exists |-> TRUE, title |-> title, last_updated |-> @.last_updated,
               upstream |-> NullTs]]
  /\ UNCHANGED <<now, tx, pc, batch, idx, stats, outcomes, replay, prevOutcomes,
                 sync, run, lastOk>>
  /\ UNCHANGED beyondCore

\* main() is started in a new process with its command line (lines 264-280).
StartRun(ff, sd) ==
  /\ pc = "idle"
  /\ pc' = "parse"
  /\ run' = [IdleRun EXCEPT !.active = TRUE, !.force_full = ff, !.start_date = sd]
  /\ batch' = <<>>
  /\ idx' = 1
  /\ stats' = ZeroStats
  /\ outcomes' = <<>>
  /\ replay' = FALSE
  /\ prevOutcomes' = <<>>
  /\ UNCHANGED <<now, db, tx, sync, lastOk>>
  /\ UNCHANGED beyondCore

\* Lines 283-287: strptime of the dates given; a bad date raises ValueError.
ParseDates ==
  /\ pc = "parse"
  /\ IF run.start_date.form = "invalid"
     THEN /\ pc' = "except"
          /\ run' = [run EXCEPT !.exc = "bad date"]
     ELSE /\ pc' = "window"
          /\ run' = [run EXCEPT !.from_date =
                       IF run.start_date.form = "date"
                       THEN [bounded |-> TRUE, at |-> run.start_date.at]
                       ELSE Unbounded]
  /\ UNCHANGED <<now, db, tx, batch, idx, stats, outcomes, replay, prevOutcomes,
                 sync, lastOk>>
  /\ UNCHANGED beyondCore

\* Lines 301-309.
SelectWindow ==
  /\ pc = "window"
  /\ run' = [run EXCEPT !.from_date = SelectFromDate(run, sync)]
  /\ pc' = AfterWindow
  /\ UNCHANGED <<now, db, tx, batch, idx, stats, outcomes, replay, prevOutcomes,
                 sync, lastOk>>
  /\ UNCHANGED beyondCore

\* Line 312: update_sync_status('in_progress').
MarkInProgress ==
  /\ pc = "mark"
  /\ sync' = UpdateSyncStatus("in_progress", "", now)
  /\ run' = [run EXCEPT !.marked = TRUE]
  /\ pc' = "fetch"
  /\ UNCHANGED <<now, db, tx, batch, idx, stats, outcomes, replay, prevOutcomes,
                 lastOk>>
  /\ UNCHANGED beyondCore

\* One request of get_paginated inside fetch_bills (line 316) that succeeds.
FetchPage(items, hasNext) ==
  /\ pc = "fetch"
  /\ run.requests < MaxPages
  /\ hasNext => run.requests + 1 < MaxPages
  /\ run' = [run EXCEPT !.requests = @ + 1, !.fetched = @ \o items]
  /\ pc' = IF hasNext THEN "fetch" ELSE "update"
  /\ UNCHANGED <<now, db, tx, batch, idx, stats, outcomes, replay, prevOutcomes,
                 sync, lastOk>>
  /\ UNCHANGED beyondCore

\* One request that fails after its retries: the error escapes to main().
FetchFails ==
  /\ pc = "fetch"
  /\ run.requests < MaxPages
  /\ run' = [run EXCEPT !.requests = @ + 1, !.exc = "api error"]
  /\ pc' = "except"
  /\ UNCHANGED <<now, db, tx, batch, idx, stats, outcomes, replay, prevOutcomes,
                 sync, lastOk>>
  /\ UNCHANGED beyondCore

\* Lines 328-361: update_database is called when the list is not empty.
MainUpdate ==
  /\ pc = "update"
  /\ IF run.fetched # <<>>
     THEN /\ EnterUpdateDatabase(run.fetched, FALSE)
          /\ run' = [run EXCEPT !.called = TRUE]
     ELSE /\ pc' = "final"
          /\ UNCHANGED <<now, db, tx, batch, idx, stats, outcomes, replay,
                         prevOutcomes, run>>
  /\ UNCHANGED <<sync, lastOk>>
  /\ UNCHANGED beyondCore

\* Line 364: the status written when no exception escaped.
FinalStatus ==
  /\ pc = "final"
  /\ LET status == CompletionStatus(IF run.called THEN stats.error ELSE 0)
     IN /\ sync' = UpdateSyncStatus(status, "", now)
        /\ run' = [run EXCEPT !.active = FALSE, !.final = status]
        /\ lastOk' = IF status = "success" THEN now ELSE lastOk
  /\ pc' = "idle"
  /\ UNCHANGED <<now, db, tx, batch, idx, stats, outcomes, replay, prevOutcomes>>
  /\ UNCHANGED beyondCore

\* Lines 366-369: except Exception: update_sync_status('failed', error); raise.
HandleException ==
  /\ pc = "except"
  /\ sync' = UpdateSyncStatus("failed", run.exc, now)
  /\ run' = [run EXCEPT !.active = FALSE, !.final = "failed"]
  /\ pc' = "idle"
  /\ UNCHANGED <<now, db, tx, batch, idx, stats, outcomes, replay, prevOutcomes,
                 lastOk>>
  /\ UNCHANGED beyondCore

\* The process is killed: nothing more is written, an open transaction is lost.
Crash ==
  /\ run.active
  /\ pc' = "idle"
  /\ tx' = NoTx
  /\ run' = [run EXCEPT !.active = FALSE]
  /\ UNCHANGED <<now, db, batch, idx, stats, outcomes, replay, prevOutcomes,
                 sync, lastOk>>
  /\ UNCHANGED beyondCore

\* update_database called batch after batch on one store.
Next ==
  \/ Tick
  \/ \E b \in Batches : CallUpdateDatabase(b)
  \/ CallAgain
  \/ Discard
  \/ ProcessRecord
  \/ Commit
  \/ \E n \in BillNumbers : LegacyUpsert(n, "t1")

Spec == Init /\ [][Next]_vars

\* Runs of main() of bill_fetch_core.py, one after the other.
NextMain ==
  \/ Tick
  \/ \E ff \in BOOLEAN, sd \in StartDates : StartRun(ff, sd)
  \/ ParseDates
  \/ SelectWindow
  \/ MarkInProgress
  \/ \E items \in PageItems, hasNext \in BOOLEAN : FetchPage(items, hasNext)
  \/ FetchFails
  \/ MainUpdate
  \/ ProcessRecord
  \/ Commit
  \/ FinalStatus
  \/ HandleException
  \/ Crash

SpecMain == Init /\ [][NextMain]_vars

\* ------------------------------------- two list syncs on one store at once
\* Each run is update_database on a list of one version of HR1, in its own
\* connection.  The store runs the transactions READ COMMITTED: the SELECT of
\* line 155 returns the committed row, and the upsert of line 184 waits while
\* another transaction holds an uncommitted write of the same row.
coreLocals ==
  <<tx, pc, batch, idx, stats, outcomes, replay, prevOutcomes, sync, run, lastOk>>

OverlapVersions ==
  {r \in SoundRecords : r.updateDate.form # "garbled"}

Active(w) ==
  w.pc \in {"select", "upsert", "commit"}

Other(r) ==
  CHOOSE o \in Runs : o # r

\* A run enters update_database with the version its fetch returned.
BeginRun(r, bill) ==
  /\ writers.run[r].pc = "idle"
  /\ writers' = [writers EXCEPT
                   !.run[r] = [IdleWriter EXCEPT !.pc = "select", !.bill = bill],
                   !.overlapped = @ \/ Active(writers.run[Other(r)])]
  /\ UNCHANGED <<now, db, coreLocals, beyondOverlap>>

\* Lines 155-181: the SELECT opens the transaction; skip or go on to write.
SelectExisting(r) ==
  LET w == writers.run[r]
      existing == db.bills[w.bill.number]
      skip == /\ existing.exists
              /\ HasUpdateDate(w.bill)
              /\ ShouldSkip(existing.last_updated, StripOffset(w.bill.updateDate))
  IN /\ w.pc = "select"
     /\ writers' = [writers EXCEPT
                      !.run[r].ts = now,
                      !.run[r].seen = existing,
                      !.run[r].pc = IF skip THEN "commit" ELSE "upsert"]
     /\ UNCHANGED <<now, db, coreLocals, beyondOverlap>>

\* Lines 184-207: INSERT ... ON CONFLICT (bill_number) DO UPDATE, whatever the
\* row holds by now.
UpsertRow(r) ==
  LET w == writers.run[r]
      o == writers.run[Other(r)]
  IN /\ w.pc = "upsert"
     /\ ~(o.pc = "commit" /\ o.wrote /\ o.bill.number = w.bill.number)
     /\ writers' = [writers EXCEPT !.run[r].wrote = TRUE, !.run[r].pc = "commit"]
     /\ UNCHANGED <<now, db, coreLocals, beyondOverlap>>

\* conn.commit() of with_db_transaction.
CommitRun(r) ==
  LET w == writers.run[r]
  IN /\ w.pc = "commit"
     /\ db' = IF w.wrote
              THEN [db EXCEPT !.bills[w.bill.number] =
                      [exists |-> TRUE, title |-> w.bill.title,
                       last_updated |-> w.ts,
                       upstream |-> StripOffset(w.bill.updateDate)]]
              ELSE db
     /\ writers' = [writers EXCEPT !.run[r].pc = "done"]
     /\ UNCHANGED <<now, coreLocals, beyondOverlap>>

\* Both processes have exited; the next pair of runs can start.
RetireRuns ==
  /\ \A r \in Runs : ~Active(writers.run[r])
  /\ \E r \in Runs : writers.run[r].pc = "done"
  /\ writers' = NoWriters
  /\ UNCHANGED <<now, db, coreLocals, beyondOverlap>>

NextOverlap ==
  \/ Tick
  \/ \E r \in Runs, bill \in OverlapVersions : BeginRun(r, bill)
  \/ \E r \in Runs : SelectExisting(r)
  \/ \E r \in Runs : UpsertRow(r)
  \/ \E r \in Runs : CommitRun(r)
  \/ RetireRuns

SpecOverlap == Init /\ [][NextOverlap]_vars

\* ------------------------------------------ the congress column of bills
\* The three statements that write bills.congress, each keyed on bill_number
\* alone (type and number, e.g. HR1, which every congress has).  A row exists
\* when its congress is set; the payloads always carry a congress.
Congresses ==
  {117, 118, 119}

\* bill_fetch_core.update_database: ON CONFLICT (bill_number) DO UPDATE SET
\* congress = EXCLUDED.congress.
ListUpsert(n, c) ==
  /\ congress' = [congress EXCEPT ![n] = c]
  /\ firstCongress' = [firstCongress EXCEPT
                         ![n] = IF congress[n] = NoCongress THEN c ELSE @]
  /\ UNCHANGED <<known_bills, beyondCongress>>

\* BillProcessor.update_bill_details: UPDATE bills SET congress = %s WHERE
\* bill_number = %s, for the congress given with --bill/--congress.
DetailUpdate(n, c) ==
  /\ congress[n] # NoCongress
  /\ congress' = [congress EXCEPT ![n] = c]
  /\ UNCHANGED <<firstCongress, known_bills, beyondCongress>>

\* DatabaseUpdater.__init__: known_bills = get_known_bills().
LoadKnownBills ==
  /\ known_bills' = {n \in BillNumbers : congress[n] # NoCongress}
  /\ UNCHANGED <<congress, firstCongress, beyondCongress>>

\* DatabaseUpdater.update_sponsored_legislation on one item of a member's
\* sponsored legislation: skipped unless the number is a known bill.
EnrichUpsert(n, c) ==
  /\ n \in known_bills
  /\ congress' = [congress EXCEPT ![n] = c]
  /\ firstCongress' = [firstCongress EXCEPT
                         ![n] = IF congress[n] = NoCongress THEN c ELSE @]
  /\ UNCHANGED <<known_bills, beyondCongress>>

NextCongress ==
  \/ \E n \in BillNumbers, c \in Congresses : ListUpsert(n, c)
  \/ \E n \in BillNumbers, c \in Congresses : DetailUpdate(n, c)
  \/ LoadKnownBills
  \/ \E n \in BillNumbers, c \in Congresses : EnrichUpsert(n, c)

SpecCongress == Init /\ [][NextCongress]_vars

\* ------------------------------------------------- RetryStrategy.execute
\* The wrapped function either returns a value, raises a
\* requests.RequestException, or raises something else.
RequestErrors ==
  {"Timeout", "HTTPError"}

ReturnValues ==
  {"json1", "json2"}

BaseDelays ==
  {1, 2}

\* failures: the request errors of the attempts so far; slept: the arguments
\* of the time.sleep calls so far.
RetryCalls ==
  [max_retries : 0..MaxRetries, base_delay : BaseDelays, attempt : {0},
   calls : {0}, failures : {<<>>}, slept : {<<>>}, state : {"running"},
   value : {""}, raised : {""}]

BackoffFlat(base_delay, attempt) ==
  base_delay

\* Line 56: delay = self.base_delay * (2 ** attempt)
Backoff(base_delay, attempt) ==
  base_delay * (2 ^ attempt)

\* One iteration of `for attempt in range(self.max_retries)` in which func
\* returns (line 47).
AttemptReturns(v) ==
  /\ retry.state = "running"
  /\ retry.attempt < retry.max_retries
  /\ retry' = [retry EXCEPT !.calls = @ + 1, !.state = "returned", !.value = v]
  /\ UNCHANGED beyondRetry

\* One iteration in which func raises a RequestException (lines 48-58): the
\* last attempt re-raises it, an earlier one sleeps and goes on.
AttemptFails(e) ==
  /\ retry.state = "running"
  /\ retry.attempt < retry.max_retries
  /\ retry' =
       IF retry.attempt = retry.max_retries - 1
       THEN [retry EXCEPT !.calls = @ + 1, !.failures = Append(@, e),
                          !.state = "raised", !.raised = e]
       ELSE [retry EXCEPT !.calls = @ + 1, !.failures = Append(@, e),
                          !.slept = Append(@, Backoff(retry.base_delay,
                                                      retry.attempt)),
                          !.attempt = @ + 1]
  /\ UNCHANGED beyondRetry

\* One iteration in which func raises an exception the except clause does
\* not name: it leaves execute at once.
AttemptBreaks ==
  /\ retry.state = "running"
  /\ retry.attempt < retry.max_retries
  /\ retry' = [retry EXCEPT !.calls = @ + 1, !.state = "raised",
                            !.raised = "other"]
  /\ UNCHANGED beyondRetry

\* Lines 60-63: the loop ended without a return or a raise (max_retries = 0).
LoopExhausted ==
  /\ retry.state = "running"
  /\ retry.attempt >= retry.max_retries
  /\ retry' = [retry EXCEPT !.state = "raised", !.raised = "unknown reason"]
  /\ UNCHANGED beyondRetry

InitRetry ==
  /\ CoreInit
  /\ OverlapIdle
  /\ CongressIdle
  /\ retry \in RetryCalls
  /\ PagerIdle
  /\ PoolIdle
  /\ SweepIdle
  /\ ParseIdle
  /\ StatusIdle
  /\ TextIdle
  /\ RestIdle

NextRetry ==
  \/ \E v \in ReturnValues : AttemptReturns(v)
  \/ \E e \in RequestErrors : AttemptFails(e)
  \/ AttemptBreaks
  \/ LoopExhausted

SpecRetry == InitRetry /\ [][NextRetry]_vars

\* ------------------------------------- get_paginated and fetch_all, paging
\* The upstream holds items 1..total behind the endpoint and answers a request
\* at an offset with the next `limit` of them.  It reports pagination.count
\* = total or no count, and a pagination.next while items remain beyond the
\* page, or, when it is at fault, in every response.
\* A call is stopped here after MaxRequests requests.
MaxRequests ==
  MaxItems + 2

PageLimits ==
  {1, 2}

StartOffsets ==
  {0, 1}

\* get_paginated of APIClient (the list syncs) takes its first offset from
\* params; fetch_all of LegislationFetcher starts at 0.
PagerCalls ==
  {c \in [fn : {"get_paginated", "fetch_all"}, total : 0..MaxItems,
          reports_count : BOOLEAN, always_next : BOOLEAN,
          start : StartOffsets, limit : PageLimits, offset : StartOffsets,
          total_count : {0}, requests : {<<>>}, all_items : {<<>>},
          state : {"running"}] :
     /\ c.offset = c.start
     /\ c.fn = "fetch_all" => c.start = 0}

\* The response to a request at `offset`.
Respond(p, offset) ==
  LET left == IF p.total > offset THEN p.total - offset ELSE 0
      n == IF left < p.limit THEN left ELSE p.limit
  IN [items |-> [i \in 1..n |-> offset + i],
      next |-> p.always_next \/ offset + p.limit < p.total,
      has_count |-> p.reports_count,
      count |-> p.total]

NextOffsetByOne(offset, limit) ==
  offset + 1

\* current_params['offset'] += limit (api.py line 160; member_enrichment.py
\* line 166).
NextOffset(offset, limit) ==
  offset + limit

\* `if offset >= (total_count or float('inf'))` of fetch_all.
SafetyCheck(offset, total_count) ==
  total_count # 0 /\ offset >= total_count

\* One iteration of `while True` whose request succeeds.
RequestPage ==
  /\ pager.state = "running"
  /\ Len(pager.requests) < MaxRequests
  /\ LET response == Respond(pager, pager.offset)
         count == IF pager.fn = "fetch_all" /\ pager.total_count = 0
                     /\ response.has_count
                  THEN response.count ELSE pager.total_count
         offset == NextOffset(pager.offset, pager.limit)
         p1 == [pager EXCEPT !.requests = Append(@, pager.offset),
                             !.all_items = @ \o response.items,
                             !.total_count = count]
     IN pager' =
          IF ~response.next
          THEN [p1 EXCEPT !.state = "returned"]
          ELSE IF pager.fn = "fetch_all" /\ SafetyCheck(offset, count)
          THEN [p1 EXCEPT !.offset = offset, !.state = "returned"]
          ELSE [p1 EXCEPT !.offset = offset]
  /\ UNCHANGED beyondPager

\* One iteration whose request fails after its retries: the error leaves the
\* function and nothing is returned.
RequestRaises ==
  /\ pager.state = "running"
  /\ Len(pager.requests) < MaxRequests
  /\ pager' = [pager EXCEPT !.requests = Append(@, pager.offset),
                            !.all_items = <<>>, !.state = "raised"]
  /\ UNCHANGED beyondPager

InitPager ==
  /\ CoreInit
  /\ OverlapIdle
  /\ CongressIdle
  /\ RetryIdle
  /\ pager \in PagerCalls
  /\ PoolIdle
  /\ SweepIdle
  /\ ParseIdle
  /\ StatusIdle
  /\ TextIdle
  /\ RestIdle

NextPager ==
  \/ RequestPage
  \/ RequestRaises

SpecPager == InitPager /\ [][NextPager]_vars

\* --------------------------- process_bill_batch and process_member_batch
\* An element of the work list: whether its congress is historical, the
\* 'bill' payload the detail request returns for it (a dict, a non-empty
\* list, an empty list) and what processor.process_bill does with it
\* (returns status success, returns another status, raises).
MAX_WORKERS == 4

\* process_bill: an empty 'bill' array sets status failed, error 'Empty bill
\* array' and returns; otherwise the status is that of the remaining steps.
ProcessBillStatus(payload, remaining) ==
  IF payload = "empty list" THEN "failed" ELSE remaining

WorkItems ==
  {[historical |-> FALSE, payload |-> "dict",
    outcome |-> ProcessBillStatus("dict", "success")],
   [historical |-> FALSE, payload |-> "dict",
    outcome |-> ProcessBillStatus("dict", "failed")],
   [historical |-> TRUE, payload |-> "list",
    outcome |-> ProcessBillStatus("list", "success")],
   [historical |-> TRUE, payload |-> "list",
    outcome |-> ProcessBillStatus("list", "raises")],
   [historical |-> TRUE, payload |-> "empty list",
    outcome |-> ProcessBillStatus("empty list", "success")]}

BatchSizes ==
  {2, 3, MAX_WORKERS + 1}

\* The work lists longer than MAX_WORKERS: dict bills that succeed.
LongWork ==
  {[k \in 1..n |-> [historical |-> FALSE, payload |-> "dict",
                     outcome |-> ProcessBillStatus("dict", "success")]] :
     n \in (MAX_WORKERS + 1)..MaxLoad}

\* main() of a batch processor has selected its work list and parsed
\* --batch-size, --parallel and --dry-run.  The members of
\* process_member_batch carry no congress; a member payload is a dict.
\* fetched and written are the elements for which an upstream request was
\* issued and a store row written; logged those named in the dry-run log.
\* times and batches are history: how often process_bill / process_member was
\* called on each element, and the batches taken so far.
PoolCalls ==
  {c \in [fn : {"process_bill_batch", "process_member_batch"},
          work : SeqsUpTo(WorkItems, MaxWork) \cup LongWork,
          batch_size : BatchSizes,
          parallel : BOOLEAN, i : {0}, mode : {""}, queued : {{}},
          running : {{}}, finished : {{}}, harvested : {{}},
          out_of_order : {FALSE}, stats : {ZeroBatchStats},
          dry_run : BOOLEAN, logged : {{}}, fetched : {{}}, written : {{}},
          times : {[k \in 1..MaxLoad |-> 0]}, batches : {<<>>},
          state : {"selected"}] :
     /\ c.batch_size > MAX_WORKERS => c.work \in LongWork
     /\ c.fn = "process_member_batch" =>
          \A k \in DOMAIN c.work :
            ~c.work[k].historical /\ c.work[k].payload = "dict"}

\* The mutant of the slice: it starts one element early.
BatchAtOverlapping(p) ==
  {k \in DOMAIN p.work : p.i <= k /\ k <= p.i + p.batch_size}

\* bills[i:i+batch_size], as positions of the work list.
BatchAt(p) ==
  {k \in DOMAIN p.work : p.i < k /\ k <= p.i + p.batch_size}

\* The mutant of the pool size: a thread for every element of the batch.
PoolSizeOfBatch(p) ==
  Cardinality(BatchAt(p))

\* max_workers=min(MAX_WORKERS, len(batch))
PoolSize(p) ==
  IF Cardinality(BatchAt(p)) < MAX_WORKERS
  THEN Cardinality(BatchAt(p)) ELSE MAX_WORKERS

TallyLossy(st, item, fn) ==
  [st EXCEPT
     !.processed = @ + 1,
     !.historical = IF fn = "process_bill_batch" /\ item.historical
                       /\ item.outcome # "raises"
                    THEN @ + 1 ELSE @,
     !.success = IF item.outcome = "success" THEN @ + 1 ELSE @,
     !.failed = IF item.outcome # "success" THEN @ + 1 ELSE @]

\* The body of the as_completed loop, and of the sequential loop: the try
\* branch for a result, the except branch for an exception.
Tally(st, item, fn) ==
  [st EXCEPT
     !.processed = @ + 1,
     !.historical = IF fn = "process_bill_batch" /\ item.historical
                    THEN @ + 1 ELSE @,
     !.success = IF item.outcome = "success" THEN @ + 1 ELSE @,
     !.failed = IF item.outcome # "success" THEN @ + 1 ELSE @]

\* The mutant of the dry-run test: the flag is not looked at.
DryRunIgnored(p) ==
  FALSE

\* if args.dry_run:
DryRun(p) ==
  p.dry_run

\* process_bill / process_member on element k: the detail request is issued
\* and, when the processing succeeds, the row is written.
Processed(p, k) ==
  [p EXCEPT !.fetched = @ \cup {k},
            !.times[k] = @ + 1,
            !.written = IF p.work[k].outcome = "success"
                        THEN @ \cup {k} ELSE @]

\* main(): nothing selected, return.
NothingToProcess ==
  /\ pool.state = "selected"
  /\ pool.work = <<>>
  /\ pool' = [pool EXCEPT !.state = "exited"]
  /\ UNCHANGED beyondPool

\* main(): the dry run logs each selected element and returns.
LogDryRun ==
  /\ pool.state = "selected"
  /\ pool.work # <<>>
  /\ DryRun(pool)
  /\ pool' = [pool EXCEPT !.logged = DOMAIN pool.work, !.state = "exited"]
  /\ UNCHANGED beyondPool

\* main() calls process_bill_batch / process_member_batch, which sets
\* stats["total"] = len(bills).
CallBatch ==
  /\ pool.state = "selected"
  /\ pool.work # <<>>
  /\ ~DryRun(pool)
  /\ pool' = [pool EXCEPT !.state = "running",
                          !.stats.total = Len(pool.work)]
  /\ UNCHANGED beyondPool

\* `for i in range(0, len(bills), batch_size)`: the next batch is submitted to
\* a new executor, or taken sequentially.
StartBatch ==
  /\ pool.state = "running"
  /\ pool.mode = ""
  /\ pool.i < Len(pool.work)
  /\ pool' = IF pool.parallel /\ Cardinality(BatchAt(pool)) > 1
             THEN [pool EXCEPT !.mode = "parallel", !.queued = BatchAt(pool),
                               !.batches = Append(@, BatchAt(pool))]
             ELSE [pool EXCEPT !.mode = "sequential", !.queued = BatchAt(pool),
                               !.batches = Append(@, BatchAt(pool))]
  /\ UNCHANGED beyondPool

\* A thread of the executor takes the oldest queued call.
WorkerStarts ==
  /\ pool.mode = "parallel"
  /\ pool.queued # {}
  /\ Cardinality(pool.running) < PoolSize(pool)
  /\ LET k == CHOOSE q \in pool.queued : \A o \in pool.queued : q <= o
     IN pool' = [pool EXCEPT !.queued = @ \ {k}, !.running = @ \cup {k}]
  /\ UNCHANGED beyondPool

\* processor.process_bill returns or raises in its thread.
WorkerFinishes(k) ==
  /\ pool.mode = "parallel"
  /\ k \in pool.running
  /\ pool' = [Processed(pool, k) EXCEPT
               !.running = @ \ {k}, !.finished = @ \cup {k}]
  /\ UNCHANGED beyondPool

\* as_completed yields a finished future; the main thread counts it.
Harvest(k) ==
  /\ pool.mode = "parallel"
  /\ k \in pool.finished
  /\ pool' = [pool EXCEPT
               !.finished = @ \ {k},
               !.harvested = @ \cup {k},
               !.out_of_order = @ \/ \E o \in BatchAt(pool) \ pool.harvested :
                                       o < k,
               !.stats = Tally(@, pool.work[k], pool.fn)]
  /\ UNCHANGED beyondPool

\* The sequential loop processes the next element of the batch.
SequentialStep ==
  /\ pool.mode = "sequential"
  /\ pool.queued # {}
  /\ LET k == CHOOSE q \in pool.queued : \A o \in pool.queued : q <= o
     IN pool' = [Processed(pool, k) EXCEPT
                   !.queued = @ \ {k},
                   !.harvested = @ \cup {k},
                   !.stats = Tally(@, pool.work[k], pool.fn)]
  /\ UNCHANGED beyondPool

\* The batch is done (the `with` block has joined its threads).
EndBatch ==
  /\ pool.mode # ""
  /\ pool.harvested = BatchAt(pool)
  /\ pool' = [pool EXCEPT !.mode = "", !.i = @ + pool.batch_size,
                          !.harvested = {}]
  /\ UNCHANGED beyondPool

\* return stats
ReturnStats ==
  /\ pool.state = "running"
  /\ pool.mode = ""
  /\ pool.i >= Len(pool.work)
  /\ pool' = [pool EXCEPT !.state = "returned"]
  /\ UNCHANGED beyondPool

InitPool ==
  /\ CoreInit
  /\ OverlapIdle
  /\ CongressIdle
  /\ RetryIdle
  /\ PagerIdle
  /\ pool \in PoolCalls
  /\ SweepIdle
  /\ ParseIdle
  /\ StatusIdle
  /\ TextIdle
  /\ RestIdle

NextPool ==
  \/ NothingToProcess
  \/ LogDryRun
  \/ CallBatch
  \/ StartBatch
  \/ WorkerStarts
  \/ \E k \in 1..MaxLoad : WorkerFinishes(k)
  \/ \E k \in 1..MaxLoad : Harvest(k)
  \/ SequentialStep
  \/ EndBatch
  \/ ReturnStats

SpecPool == InitPool /\ [][NextPool]_vars

\* ----------------------------------- validation and the missing-data sweep
\* The queries select rows of bills one by one, so the table holds one bill.
\* Each field of the row says whether the bill has that data: a summary, a
\* tag of type Policy Area, a tag of another type, rows in bill_subjects,
\* bill_cosponsors and bill_actions, a sponsor_id, text_versions.
\* reported.missing names the result lists the bill is in.
CongressValues ==
  {NoCongress, HistoricalFirst - 1, HistoricalFirst, HistoricalLast,
   HistoricalLast + 1}

CatalogRows ==
  [congress : CongressValues, summary : BOOLEAN, policy_tag : BOOLEAN,
   other_tag : BOOLEAN, subjects : BOOLEAN, cosponsors : BOOLEAN,
   sponsor : BOOLEAN, text_versions : BOOLEAN, actions : BOOLEAN]

\* (congress::int > 42 OR congress::int < 6): not true of a NULL congress.
OutsideHistorical(c) ==
  c # NoCongress /\ (c > HistoricalLast \/ c < HistoricalFirst)

\* The row is in the list when the WHERE / HAVING of its query holds.
ListedIf(selected, list) ==
  IF selected THEN {list} ELSE {}

\* The policy-area query of check_missing_details: its WHERE keeps the joined
\* rows whose tag type is Policy Area or NULL, so a bill whose only tags are
\* of another type leaves no row and no group.
MissingPolicyArea(b) ==
  ~b.policy_tag /\ ~b.other_tag /\ OutsideHistorical(b.congress)

CheckMissingDetails ==
  /\ reported' =
       [by |-> "check_missing_details", excluding |-> TRUE,
        missing |->
          ListedIf(~catalog.text_versions, "text_versions")
          \cup ListedIf(~catalog.summary /\ OutsideHistorical(catalog.congress),
                        "summary")
          \cup ListedIf(MissingPolicyArea(catalog), "policy_area")]
  /\ UNCHANGED <<catalog, beyondSweep>>

CheckMissingEnrichment ==
  /\ reported' =
       [by |-> "check_missing_enrichment", excluding |-> TRUE,
        missing |->
          ListedIf(~catalog.actions, "actions")
          \cup ListedIf(~catalog.subjects /\ OutsideHistorical(catalog.congress),
                        "subjects")
          \cup ListedIf(catalog.sponsor /\ ~catalog.cosponsors
                          /\ OutsideHistorical(catalog.congress), "cosponsors")]
  /\ UNCHANGED <<catalog, beyondSweep>>

\* historical_condition is appended only when exclude_historical is set.
HistoricalCondition(exclude_historical, c) ==
  exclude_historical => OutsideHistorical(c)

SweepDataTypes ==
  {"text_versions", "summary", "actions", "cosponsors"}

GetBillsMissingData(data_type, exclude_historical) ==
  /\ reported' =
       [by |-> "get_bills_missing_data", excluding |-> exclude_historical,
        missing |->
          ListedIf(
            /\ HistoricalCondition(exclude_historical, catalog.congress)
            /\ CASE data_type = "text_versions" -> ~catalog.text_versions
                  [] data_type = "summary" -> ~catalog.summary
                  [] data_type = "actions" -> ~catalog.actions
                  [] data_type = "cosponsors" ->
                       catalog.sponsor /\ ~catalog.cosponsors,
            data_type)]
  /\ UNCHANGED <<catalog, beyondSweep>>

\* get_bills_for_processing(only_recent=False): one query, a disjunction; the
\* bill is listed under each disjunct that selects it.
GetBillsForProcessing ==
  /\ reported' =
       [by |-> "get_bills_for_processing", excluding |-> FALSE,
        missing |->
          ListedIf(~catalog.text_versions, "text_versions")
          \cup ListedIf(~catalog.actions, "actions")
          \cup ListedIf(~catalog.subjects, "subjects")
          \cup ListedIf(catalog.sponsor /\ ~catalog.cosponsors, "cosponsors")]
  /\ UNCHANGED <<catalog, beyondSweep>>

InitSweep ==
  /\ CoreInit
  /\ OverlapIdle
  /\ CongressIdle
  /\ RetryIdle
  /\ PagerIdle
  /\ PoolIdle
  /\ catalog \in CatalogRows
  /\ reported = NothingReported
  /\ ParseIdle
  /\ StatusIdle
  /\ TextIdle
  /\ RestIdle

NextSweep ==
  \/ CheckMissingDetails
  \/ CheckMissingEnrichment
  \/ \E data_type \in SweepDataTypes, exclude_historical \in BOOLEAN :
       GetBillsMissingData(data_type, exclude_historical)
  \/ GetBillsForProcessing

SpecSweep == InitSweep /\ [][NextSweep]_vars

\* ------------------------------------------------------ parse_bill_number
\* A string is the sequence of its characters.  The alphabet has an upper-case
\* and a lower-case ASCII letter, two digits, a character that is neither, and
\* the newline ($ of the pattern also matches before a final newline).
CasePairs ==
  {<<"H", "h">>, <<"R", "r">>, <<"D", "d">>, <<"I", "i">>, <<"L", "l">>,
   <<"G", "g">>, <<"S", "s">>, <<"N", "n">>, <<"W", "w">>}

Letters == {"H", "h", "s"}

Digits == {"1", "2"}

Newline == "\n"

InputChars == {"H", "s", "1", "2", "-", Newline}

BillNumberInputs == SeqsUpTo(InputChars, MaxLen)

\* The mutant of str.lower: the string unchanged.
LowerKept(str) ==
  str

\* str.lower()
Lower(str) ==
  [i \in 1..Len(str) |->
     IF \E pair \in CasePairs : pair[1] = str[i]
     THEN (CHOOSE pair \in CasePairs : pair[1] = str[i])[2]
     ELSE str[i]]

\* Where the match of ^([a-zA-Z]+)(\d+)$ ends: at the end of the string, or
\* before a newline that ends the string.
MatchEnds(str) ==
  {Len(str)} \cup
    (IF Len(str) > 0 /\ str[Len(str)] = Newline THEN {Len(str) - 1} ELSE {})

\* re.match(r'^([a-zA-Z]+)(\d+)$', bill_number): the pairs <<k, m>> for which
\* group 1 is str[1..k] and group 2 is str[k+1..m]; at most one pair.
Matches(str) ==
  {km \in (1..Len(str)) \X MatchEnds(str) :
     /\ km[1] < km[2]
     /\ \A i \in 1..km[1] : str[i] \in Letters
     /\ \A i \in (km[1] + 1)..km[2] : str[i] \in Digits}

\* The i of the first c with c.isdigit(), counted from 1; 0 when there is none.
FirstDigit(str) ==
  IF \E i \in 1..Len(str) : str[i] \in Digits
  THEN CHOOSE i \in 1..Len(str) :
         /\ str[i] \in Digits
         /\ \A j \in 1..(i - 1) : str[j] \notin Digits
  ELSE 0

ParseBillNumber(str) ==
  IF Matches(str) # {}
  THEN LET km == CHOOSE m \in Matches(str) : TRUE
       IN [state |-> "returned",
           bill_type |-> Lower(SubSeq(str, 1, km[1])),
           number |-> SubSeq(str, km[1] + 1, km[2])]
  ELSE IF FirstDigit(str) # 0
  THEN [state |-> "returned",
        bill_type |-> Lower(SubSeq(str, 1, FirstDigit(str) - 1)),
        number |-> SubSeq(str, FirstDigit(str), Len(str))]
  ELSE [state |-> "returned", bill_type |-> Lower(str), number |-> <<>>]

CallParseBillNumber ==
  /\ parsed.state = "idle"
  /\ parsed' = ParseBillNumber(bill_number)
  /\ UNCHANGED <<bill_number, statusVars, textVars, partyVars, selectVars,
                 beyondFunctions>>

OthersIdle ==
  /\ CoreInit
  /\ OverlapIdle
  /\ CongressIdle
  /\ RetryIdle
  /\ PagerIdle
  /\ PoolIdle
  /\ SweepIdle

InitParse ==
  /\ OthersIdle
  /\ bill_number \in BillNumberInputs
  /\ parsed = NotParsed
  /\ StatusIdle
  /\ TextIdle
  /\ RestIdle

NextParse ==
  CallParseBillNumber

SpecParse == InitParse /\ [][NextParse]_vars

\* --------------------------------------------------- normalize_bill_status
\* An action text is a sequence of phrases, separated by characters that are
\* in no keyword.  PhraseCase pairs each phrase as written with its lower
\* case; "Signed by President" holds no keyword.
PhraseCase ==
  {<<"Became Public Law", "became public law">>,
   <<"became law", "became law">>,
   <<"enacted", "enacted">>,
   <<"Approved by President", "approved by president">>,
   <<"Passed", "passed">>,
   <<"House", "house">>,
   <<"senate", "senate">>,
   <<"Placed on", "placed on">>,
   <<"calendar", "calendar">>,
   <<"Union Calendar", "union calendar">>,
   <<"reported", "reported">>,
   <<"Ordered to be Reported", "ordered to be reported">>,
   <<"Referred to", "referred to">>,
   <<"committee", "committee">>,
   <<"Held at the desk", "held at the desk">>,
   <<"introduced", "introduced">>,
   <<"Introduction", "introduction">>,
   <<"Motion to reconsider laid on the table Agreed to",
     "motion to reconsider laid on the table agreed to">>,
   <<"Signed by President", "signed by president">>}

Phrases == {pair[1] : pair \in PhraseCase}

ActionTexts == SeqsUpTo(Phrases, MaxTerms)

\* action_text.lower()
LowerText(text) ==
  [i \in 1..Len(text) |->
     (CHOOSE pair \in PhraseCase : pair[1] = text[i])[2]]

\* The keywords that are substrings of a phrase: itself and, of two phrases,
\* a shorter keyword.
KeywordsOf(phrase) ==
  {phrase} \cup
    (IF phrase = "ordered to be reported" THEN {"reported"} ELSE {}) \cup
    (IF phrase = "union calendar" THEN {"calendar"} ELSE {})

\* term in action_text
In(term, text) ==
  \E i \in 1..Len(text) : term \in KeywordsOf(text[i])

\* any(term in action_text for term in terms)
AnyIn(terms, text) ==
  \E term \in terms : In(term, text)

\* Each block of the function returns a status or falls through to the next.
FallsThrough == "falls through"

\* if 'house' ... elif 'senate' ...
Chamber(text) ==
  IF In("house", text) THEN "Passed House"
  ELSE IF In("senate", text) THEN "Passed Senate"
  ELSE FallsThrough

DirectMatch(text) ==
  IF AnyIn({"became public law", "became law"}, text) THEN "Became Law"
  ELSE IF AnyIn({"enacted", "approved by president"}, text) THEN "Enacted"
  ELSE IF In("passed", text) THEN Chamber(text)
  ELSE FallsThrough

CalendarPlacement(text) ==
  IF In("placed on", text) /\ In("calendar", text)
  THEN IF In("senate", text) THEN "Reported"
       ELSE IF In("union calendar", text) THEN "Reported"
       ELSE FallsThrough
  ELSE FallsThrough

\* The mutant of the committee block: the committee keywords tried first.
CommitteeActionSwapped(text) ==
  IF AnyIn({"referred to", "committee"}, text) THEN "In Committee"
  ELSE IF AnyIn({"reported", "ordered to be reported"}, text) THEN "Reported"
  ELSE IF In("held at the desk", text) THEN "In Committee"
  ELSE FallsThrough

CommitteeAction(text) ==
  IF AnyIn({"reported", "ordered to be reported"}, text) THEN "Reported"
  ELSE IF AnyIn({"referred to", "committee"}, text) THEN "In Committee"
  ELSE IF In("held at the desk", text) THEN "In Committee"
  ELSE FallsThrough

IntroductionStatus(text) ==
  IF AnyIn({"introduced", "introduction"}, text) THEN "Introduced"
  ELSE FallsThrough

MotionOutcome(text) ==
  IF In("motion to reconsider laid on the table agreed to", text)
  THEN Chamber(text)
  ELSE FallsThrough

NormalizeBillStatus(text) ==
  IF text = <<>> THEN None
  ELSE LET lowered == LowerText(text)
       IN IF DirectMatch(lowered) # FallsThrough THEN DirectMatch(lowered)
          ELSE IF CalendarPlacement(lowered) # FallsThrough
            THEN CalendarPlacement(lowered)
          ELSE IF CommitteeAction(lowered) # FallsThrough
            THEN CommitteeAction(lowered)
          ELSE IF IntroductionStatus(lowered) # FallsThrough
            THEN IntroductionStatus(lowered)
          ELSE IF MotionOutcome(lowered) # FallsThrough
            THEN MotionOutcome(lowered)
          ELSE None

CallNormalizeBillStatus ==
  /\ normalized_status.state = "idle"
  /\ normalized_status' =
       [state |-> "returned", status |-> NormalizeBillStatus(action_text)]
  /\ UNCHANGED <<action_text, parseVars, textVars, partyVars, selectVars,
                 beyondFunctions>>

InitStatus ==
  /\ OthersIdle
  /\ ParseIdle
  /\ action_text \in ActionTexts
  /\ normalized_status = NotNormalized
  /\ TextIdle
  /\ RestIdle

NextStatus ==
  CallNormalizeBillStatus

SpecStatus == InitStatus /\ [][NextStatus]_vars

\* --------------------------------------------------- process_text_versions
\* Dates are ISO strings of one format, compared as strings: 1 is before 2.
\* A version has one format, "" when it has no 'formats' key; display_type
\* and is_initial_version are absent ("" and FALSE) in the input.
VersionDates == {NullDate, 1, 2}

VersionTypes == {"Public Law", "Engrossed in House", "Introduced in House"}

FormatTypes == {"", "Formatted Text"}

TextVersions ==
  [type : VersionTypes, date : VersionDates, is_initial_version : {FALSE},
   format : FormatTypes, display_type : {""}]

TextVersionCalls ==
  [list : SeqsUpTo(TextVersions, MaxVersions),
   introduced_date : {NullDate, 1}]

\* type_importance.get(version.get('type', ''), 999)
TypeImportance(type) ==
  CASE type = "Public Law" -> 1
    [] type = "Enrolled Bill" -> 2
    [] type \in {"Engrossed in Senate", "Engrossed in House"} -> 3
    [] type \in {"Placed on Calendar Senate", "Placed on Calendar House"} -> 4
    [] OTHER -> 999

\* The null dates filled from introduced_date.
FillDate(version, introduced_date) ==
  IF version.date = NullDate /\ introduced_date # NullDate
  THEN [version EXCEPT !.date = introduced_date, !.is_initial_version = TRUE]
  ELSE version

\* version_sort_key(a) > version_sort_key(b), as tuples
KeyGreater(a, b) ==
  \/ a.date > b.date
  \/ a.date = b.date /\ TypeImportance(a.type) > TypeImportance(b.type)

\* list.sort(key=..., reverse=True) is stable: a version goes after the
\* versions before it in the list whose key is not smaller.
InsertVersion(sorted, version) ==
  LET ahead == Cardinality({i \in 1..Len(sorted) :
                              ~KeyGreater(version, sorted[i])})
  IN SubSeq(sorted, 1, ahead) \o <<version>>
       \o SubSeq(sorted, ahead + 1, Len(sorted))

RECURSIVE SortVersions(_)
SortVersions(list) ==
  IF list = <<>> THEN <<>>
  ELSE InsertVersion(SortVersions(SubSeq(list, 1, Len(list) - 1)),
                     list[Len(list)])

\* format_display_names.get(fmt.get('type', ''), fmt.get('type', ''))
DisplayType(format) ==
  CASE format = "Formatted Text" -> "HTML"
    [] format = "Formatted XML" -> "XML"
    [] OTHER -> format

ProcessTextVersions(list, introduced_date) ==
  IF list = <<>> THEN <<>>
  ELSE LET filled == [i \in 1..Len(list) |-> FillDate(list[i], introduced_date)]
           ordered == SortVersions(filled)
       IN [i \in 1..Len(ordered) |->
             [ordered[i] EXCEPT !.display_type = DisplayType(ordered[i].format)]]

CallProcessTextVersions ==
  /\ sorted_versions.state = "idle"
  /\ sorted_versions' =
       [state |-> "returned",
        list |-> ProcessTextVersions(versions.list, versions.introduced_date)]
  /\ UNCHANGED <<versions, parseVars, statusVars, partyVars, selectVars,
                 beyondFunctions>>

InitText ==
  /\ OthersIdle
  /\ ParseIdle
  /\ StatusIdle
  /\ versions \in TextVersionCalls
  /\ sorted_versions = NotSorted
  /\ RestIdle

NextText ==
  CallProcessTextVersions

SpecText == InitText /\ [][NextText]_vars

\* -------------------------------------------------------- parse_party_name
\* party_map, in the order of the dict: the partial-match loop tries the keys
\* in this order.
PartyMap ==
  <<[key |-> <<"r", "e", "p", "u", "b", "l", "i", "c", "a", "n">>,
     name |-> "Republican", code |-> "R"],
    [key |-> <<"r">>,
     name |-> "Republican", code |-> "R"],
    [key |-> <<"g", "o", "p">>,
     name |-> "Republican", code |-> "R"],
    [key |-> <<"d", "e", "m", "o", "c", "r", "a", "t">>,
     name |-> "Democrat", code |-> "D"],
    [key |-> <<"d", "e", "m", "o", "c", "r", "a", "t", "i", "c">>,
     name |-> "Democrat", code |-> "D"],
    [key |-> <<"d">>,
     name |-> "Democrat", code |-> "D"],
    [key |-> <<"i", "n", "d", "e", "p", "e", "n", "d", "e", "n", "t">>,
     name |-> "Independent", code |-> "I"],
    [key |-> <<"i">>,
     name |-> "Independent", code |-> "I"],
    [key |-> <<"l", "i", "b", "e", "r", "t", "a", "r", "i", "a", "n">>,
     name |-> "Libertarian", code |-> "L"],
    [key |-> <<"l">>,
     name |-> "Libertarian", code |-> "L"],
    [key |-> <<"g", "r", "e", "e", "n">>,
     name |-> "Green", code |-> "G"],
    [key |-> <<"g">>,
     name |-> "Green", code |-> "G"]>>

\* A party name is a string of words; the words as they are written.
PartyWords ==
  {<<"R", "e", "p", "u", "b", "l", "i", "c", "a", "n">>,
   <<"g", "o", "p">>,
   <<"D", "e", "m", "o", "c", "r", "a", "t">>,
   <<"d", "e", "m", "o", "c", "r", "a", "t", "i", "c">>,
   <<"i", "n", "d", "e", "p", "e", "n", "d", "e", "n", "t">>,
   <<"L", "i", "b", "e", "r", "t", "a", "r", "i", "a", "n">>,
   <<"g", "r", "e", "e", "n">>,
   <<"r">>,
   <<"D">>,
   <<"i">>,
   <<" ">>,
   <<"s">>,
   <<"n", "o">>,
   <<"W", "h", "i", "g">>}

RECURSIVE Concat(_)
Concat(words) ==
  IF words = <<>> THEN <<>> ELSE Head(words) \o Concat(Tail(words))

PartyInputs ==
  {Concat(words) : words \in SeqsUpTo(PartyWords, MaxWords)}

\* c.upper() of one character
Upper(c) ==
  IF \E pair \in CasePairs : pair[2] = c
  THEN (CHOOSE pair \in CasePairs : pair[2] = c)[1]
  ELSE c

\* str.strip()
Strip(str) ==
  LET inked == {i \in 1..Len(str) : str[i] # " "}
  IN IF inked = {} THEN <<>>
     ELSE SubSeq(str, CHOOSE i \in inked : \A j \in inked : i <= j,
                 CHOOSE i \in inked : \A j \in inked : i >= j)

\* key in str
IsSubstring(key, str) ==
  \E i \in 0..(Len(str) - Len(key)) : SubSeq(str, i + 1, i + Len(key)) = key

ParsePartyName(str) ==
  IF str = <<>>
  THEN [state |-> "returned", standard |-> "", name |-> <<>>, code |-> ""]
  ELSE LET party_lower == Strip(Lower(str))
           exact == {k \in 1..Len(PartyMap) : PartyMap[k].key = party_lower}
           partial == {k \in 1..Len(PartyMap) :
                         IsSubstring(PartyMap[k].key, party_lower)}
           value(k) == [state |-> "returned", standard |-> PartyMap[k].name,
                        name |-> <<>>, code |-> PartyMap[k].code]
       IN IF exact # {} THEN value(CHOOSE k \in exact : TRUE)
          ELSE IF partial # {}
            THEN value(CHOOSE k \in partial : \A j \in partial : k <= j)
          ELSE [state |-> "returned", standard |-> "", name |-> str,
                code |-> Upper(str[1])]

CallParsePartyName ==
  /\ party_result.state = "idle"
  /\ party_result' = ParsePartyName(party)
  /\ UNCHANGED <<party, parseVars, statusVars, textVars, selectVars,
                 beyondFunctions>>

InitParty ==
  /\ OthersIdle
  /\ ParseIdle
  /\ StatusIdle
  /\ TextIdle
  /\ party \in PartyInputs
  /\ party_result = NoPartyResult
  /\ SelectIdle
  /\ StatusRowIdle
  /\ EnrichmentIdle

NextParty ==
  CallParsePartyName

SpecParty == InitParty /\ [][NextParty]_vars

\* ----------------------------------------- get_bill_data, a list payload
\* An updateDate is a string, here of the characters "1" and "2" written as
\* the numbers 1 and 2; an entry without the key has dated = FALSE.  A dict
\* payload is a payload of kind "dict" with the one entry.
DateStrings == SeqsUpTo({1, 2}, 2)

Entries ==
  {e \in [title : {"a", "b"}, dated : BOOLEAN, updateDate : DateStrings] :
     ~e.dated => e.updateDate = <<>>}

Payloads ==
  [kind : {"list"}, entries : SeqsUpTo(Entries, MaxEntries)]
    \cup [kind : {"dict"}, entries : {<<e>> : e \in Entries}]

\* a < b for two strings
StringLess(a, b) ==
  \E i \in 1..Len(b) :
    /\ i <= Len(a) + 1
    /\ \A j \in 1..(i - 1) : a[j] = b[j]
    /\ i = Len(a) + 1 \/ a[i] < b[i]

\* The mutant of the order of the sort: ascending.
UpdateDateBefore(a, b) ==
  StringLess(a.updateDate, b.updateDate)

\* x.get('updateDate', '') of a is greater than that of b
UpdateDateAfter(a, b) ==
  StringLess(b.updateDate, a.updateDate)

\* sorted(bill, key=..., reverse=True): stable, so an entry goes after the
\* entries before it in the list whose key is not smaller.
RECURSIVE SortByUpdateDate(_)
SortByUpdateDate(list) ==
  IF list = <<>> THEN <<>>
  ELSE LET sorted == SortByUpdateDate(SubSeq(list, 1, Len(list) - 1))
           last == list[Len(list)]
           ahead == Cardinality({i \in 1..Len(sorted) :
                                   ~UpdateDateAfter(last, sorted[i])})
       IN SubSeq(sorted, 1, ahead) \o <<last>>
            \o SubSeq(sorted, ahead + 1, Len(sorted))

SelectBillData(bill) ==
  IF bill.kind = "list"
  THEN IF bill.entries = <<>>
       THEN [state |-> "returned", found |-> FALSE, entry |-> NoEntry]
       ELSE [state |-> "returned", found |-> TRUE,
             entry |-> SortByUpdateDate(bill.entries)[1]]
  ELSE [state |-> "returned", found |-> TRUE, entry |-> bill.entries[1]]

CallGetBillData ==
  /\ selected_bill.state = "idle"
  /\ selected_bill' = SelectBillData(bill_payload)
  /\ UNCHANGED <<bill_payload, parseVars, statusVars, textVars, partyVars,
                 beyondFunctions>>

InitSelect ==
  /\ OthersIdle
  /\ ParseIdle
  /\ StatusIdle
  /\ TextIdle
  /\ PartyIdle
  /\ bill_payload \in Payloads
  /\ selected_bill = NotSelected
  /\ StatusRowIdle
  /\ EnrichmentIdle

NextSelect ==
  CallGetBillData

SpecSelect == InitSelect /\ [][NextSelect]_vars

\* ------------------------------------------------ member enrichment, main
\* The current members are 1..MaxMembers, numbered in the order of their
\* bioguide_id.  enrichment.status_row is the api_sync_status row of the
\* sponsored-legislation endpoint; at_start is that row as the run found it,
\* selected the members its query returned, item what the last item of
\* legislation did.  The bills rows are those of the congress column.
CurrentMembers == 1..MaxMembers

MemberError(m) ==
  [kind |-> "member", member |-> m]

UnexpectedError ==
  [kind |-> "unexpected", member |-> 0]

\* The mutant of the known-bills test: every bill number passes.
KnownBillAlways(n) ==
  TRUE

\* bill_number in self.known_bills
KnownBill(n) ==
  n \in known_bills

\* SELECT last_error ... WHERE endpoint = %s AND status = 'failed', then
\* re.search(r'Error processing member (\w+):', last_error); 0 for None.
LastFailedMember(row) ==
  IF row.status = "failed" /\ row.last_error.kind = "member"
  THEN row.last_error.member ELSE 0

\* The members query: bioguide_id > last_failed_member when there is one.
MembersToProcess(last_failed_member) ==
  IF last_failed_member # 0
  THEN {m \in CurrentMembers : m > last_failed_member}
  ELSE CurrentMembers

\* main() starts: DatabaseUpdater.__init__ reads the known bills.
StartEnrichment ==
  /\ enrichment.pc = "idle"
  /\ enrichment.runs < MaxRuns
  /\ known_bills' = {n \in BillNumbers : congress[n] # NoCongress}
  /\ enrichment' = [enrichment EXCEPT
                      !.pc = "constructed", !.runs = @ + 1,
                      !.at_start = enrichment.status_row,
                      !.resumed_after = 0, !.selected = {}, !.todo = {},
                      !.processed = {}, !.item = NoItem]
  /\ UNCHANGED <<congress, firstCongress, beyondEnrichmentAndBills>>

\* update_sync_status(SPONSORED_ENDPOINT, in_progress): error is None.
EnrichmentInProgress ==
  /\ enrichment.pc = "constructed"
  /\ enrichment' = [enrichment EXCEPT
                      !.pc = "marked",
                      !.status_row = [status |-> "in_progress",
                                      last_error |-> NoError]]
  /\ UNCHANGED beyondEnrichment

\* The last failed member is read from the row and the members selected.
SelectMembers ==
  /\ enrichment.pc = "marked"
  /\ LET last_failed_member == LastFailedMember(enrichment.status_row)
     IN enrichment' = [enrichment EXCEPT
                         !.pc = "loop",
                         !.resumed_after = last_failed_member,
                         !.selected = MembersToProcess(last_failed_member),
                         !.todo = MembersToProcess(last_failed_member)]
  /\ UNCHANGED beyondEnrichment

\* The next member of the loop: in bioguide order after a failed member,
\* else in the order of last_updated, which is any order.
NextMembers ==
  IF enrichment.resumed_after # 0
  THEN {m \in enrichment.todo : \A o \in enrichment.todo : m <= o}
  ELSE enrichment.todo

\* One member is processed without an exception; its legislation holds the
\* item of bill n and congress c.  update_sponsored_legislation skips the item
\* when the bill is not a known bill and upserts the bills row otherwise.
ProcessMember(m, n, c) ==
  /\ enrichment.pc = "loop"
  /\ m \in NextMembers
  /\ IF KnownBill(n)
     THEN /\ congress' = [congress EXCEPT ![n] = c]
          /\ firstCongress' = [firstCongress EXCEPT
                 ![n] = IF congress[n] = NoCongress THEN c ELSE @]
     ELSE UNCHANGED <<congress, firstCongress>>
  /\ enrichment' = [enrichment EXCEPT
                      !.todo = @ \ {m},
                      !.processed = @ \cup {m},
                      !.item = [number |-> n, known |-> n \in known_bills,
                                skipped |-> ~KnownBill(n),
                                wrote |-> KnownBill(n)]]
  /\ UNCHANGED <<known_bills, beyondEnrichmentAndBills>>

\* Processing member m raises: the except of the loop writes status failed
\* with 'Error processing member m: ...' and continues.
MemberFails(m) ==
  /\ enrichment.pc = "loop"
  /\ m \in NextMembers
  /\ enrichment' = [enrichment EXCEPT
                      !.todo = @ \ {m},
                      !.processed = @ \cup {m},
                      !.status_row = [status |-> "failed",
                                      last_error |-> MemberError(m)]]
  /\ UNCHANGED beyondEnrichment

\* After the loop: update_sync_status(SPONSORED_ENDPOINT, success).
EnrichmentSuccess ==
  /\ enrichment.pc = "loop"
  /\ enrichment.todo = {}
  /\ enrichment' = [enrichment EXCEPT
                      !.pc = "idle",
                      !.status_row = [status |-> "success",
                                      last_error |-> NoError]]
  /\ UNCHANGED beyondEnrichment

\* An exception outside the member loop's try (a query of main fails): the
\* outer except writes status failed and re-raises.
EnrichmentRaises ==
  /\ enrichment.pc \in {"constructed", "marked"}
  /\ enrichment' = [enrichment EXCEPT
                      !.pc = "idle",
                      !.status_row = [status |-> "failed",
                                      last_error |-> UnexpectedError]]
  /\ UNCHANGED beyondEnrichment

\* The process is killed in the member loop.
EnrichmentKilled ==
  /\ enrichment.pc = "loop"
  /\ enrichment' = [enrichment EXCEPT !.pc = "idle"]
  /\ UNCHANGED beyondEnrichment

\* Meanwhile the bill list sync inserts or updates bills (ListUpsert).
NextEnrichment ==
  \/ StartEnrichment
  \/ EnrichmentInProgress
  \/ SelectMembers
  \/ \E m \in CurrentMembers, n \in BillNumbers : ProcessMember(m, n, 118)
  \/ \E m \in CurrentMembers : MemberFails(m)
  \/ EnrichmentSuccess
  \/ EnrichmentRaises
  \/ EnrichmentKilled
  \/ \E n \in BillNumbers : ListUpsert(n, 117)

SpecEnrichment == Init /\ [][NextEnrichment]_vars

\* ------------------------------ the status row under overlapping runs
\* Runs of bill_fetch_core.main against one store; nothing in main keeps two
\* runs apart.  Each run is "not started", "fetching" (after its in_progress
\* write and before its final write), "crashed" (killed while fetching, it
\* writes nothing more) or "finished".
SyncRuns ==
  1..MaxSyncRuns

\* main: update_sync_status('in_progress'), then the fetch begins.
RunMarksInProgress(r) ==
  /\ endpoint.runs[r] = "not started"
  /\ endpoint' = [row |-> UpdateSyncStatus("in_progress", "", now),
                  written_by |-> r,
                  runs |-> [endpoint.runs EXCEPT ![r] = "fetching"]]
  /\ UNCHANGED beyondStatusRow

\* main: update_sync_status('success') after fetch and update_database.
RunSucceeds(r) ==
  /\ endpoint.runs[r] = "fetching"
  /\ endpoint' = [row |-> UpdateSyncStatus("success", "", now),
                  written_by |-> r,
                  runs |-> [endpoint.runs EXCEPT ![r] = "finished"]]
  /\ UNCHANGED beyondStatusRow

\* main: except Exception: update_sync_status('failed', error=str(e)); raise.
RunFails(r) ==
  /\ endpoint.runs[r] = "fetching"
  /\ endpoint' = [row |-> UpdateSyncStatus("failed", "error", now),
                  written_by |-> r,
                  runs |-> [endpoint.runs EXCEPT ![r] = "finished"]]
  /\ UNCHANGED beyondStatusRow

\* The process is killed while fetching: no except clause runs.
RunCrashes(r) ==
  /\ endpoint.runs[r] = "fetching"
  /\ endpoint' = [endpoint EXCEPT !.runs[r] = "crashed"]
  /\ UNCHANGED beyondStatusRow

NextStatusRow ==
  \/ \E r \in SyncRuns : RunMarksInProgress(r)
  \/ \E r \in SyncRuns : RunSucceeds(r)
  \/ \E r \in SyncRuns : RunFails(r)
  \/ \E r \in SyncRuns : RunCrashes(r)

SpecStatusRow == Init /\ [][NextStatusRow]_vars

\* ------------------------------------------------------------------ claims
\* The element the loop is about to process, and the row its SELECT returns.
Current ==
  batch[idx]

Existing ==
  tx.bills[Current.number]

\* A step of the loop of update_database.
LoopStep ==
  pc = "loop" /\ idx <= Len(batch) /\ idx' = idx + 1

\* The loop of update_database is over: stats is what the call returns.
LoopDone ==
  pc = "loop" /\ idx > Len(batch)

\* The step in which with_db_transaction commits and returns.
ReturnStep ==
  LoopDone /\ pc' # "loop"

Written ==
  {"inserted", "updated"}

\* The element is a bill dictionary that nothing is wrong with.
Sound(rec) ==
  rec.kind = "dict" /\ rec.defect = "none"

\* C1: idempotent replay.  When update_database has run on a batch and is run
\* again at once on the same batch, the second run reports inserted = 0 and
\* updated = 0, and every element the first run wrote is skipped by the second.
\* Stated for the batches whose elements are all sound bill dictionaries that
\* carry a parseable updateDate.
C1_IdempotentReplay ==
  ( /\ LoopDone
    /\ replay
    /\ \A i \in DOMAIN batch : Sound(batch[i]) /\ ParsesAsIso(batch[i].updateDate) )
  => /\ stats.inserted = 0
     /\ stats.updated = 0
     /\ \A i \in DOMAIN batch :
          prevOutcomes[i] \in Written => outcomes[i] = "skipped"

\* C2: insert then update.  When the stored row of a bill was written from an
\* upstream version with updateDate u1 and a later sync delivers the bill with
\* updateDate u2 > u1 and another title, the sync counts the bill as updated and
\* the row holds the new title, whatever the store's clock read at the first write.
C2_InsertThenUpdate ==
  [][ ( /\ LoopStep
        /\ Sound(Current)
        /\ ~tx.aborted
        /\ ParsesAsIso(Current.updateDate)
        /\ Existing.exists
        /\ Existing.upstream # NullTs
        /\ StripOffset(Current.updateDate) > Existing.upstream
        /\ Current.title # Existing.title )
      => /\ outcomes'[idx] = "updated"
         /\ tx'.bills[Current.number].title = Current.title ]_vars

C4_NoTimestampUpdates ==
  [][ ( /\ LoopStep
        /\ Sound(Current)
        /\ ~tx.aborted
        /\ Existing.exists
        /\ \/ ~HasUpdateDate(Current)
           \/ ~ParsesAsIso(Current.updateDate)
           \/ Existing.last_updated = NullTs )
      => /\ outcomes'[idx] = "updated"
         /\ tx'.bills[Current.number].title = Current.title ]_vars

\* The per-record errors of the run that has just ended.
RunErrors ==
  IF run.called THEN stats.error ELSE 0

\* C5: final status of a run.  It ends success when no record errored,
\* completed_with_errors when a record errored and no exception escaped, and
\* failed with last_error the exception message when an exception escaped.
C5_FinalStatus ==
  (pc = "idle" /\ run.final # "")
  => /\ (run.exc = "" /\ RunErrors = 0) => sync.status = "success"
     /\ (run.exc = "" /\ RunErrors >= 1) => sync.status = "completed_with_errors"
     /\ run.exc # "" => (sync.status = "failed" /\ sync.last_error = run.exc)

\* C6: ordering within a run.  in_progress is written before the first request
\* to the upstream is issued, and the final status is written only after every
\* fetched element has been processed or an exception has aborted the run.
C6_Ordering ==
  /\ run.requests > 0 => run.marked
  /\ run.final \in {"success", "completed_with_errors"} =>
       /\ run.exc = ""
       /\ IF run.fetched = <<>> THEN ~run.called
          ELSE run.called /\ batch = run.fetched /\ Len(outcomes) = Len(batch)
  /\ run.final = "failed" => run.exc # ""

\* Witness of C6: a run that fetched two pages, processed both elements and
\* wrote its final status.
C6_Witness ==
  /\ run.final = "success"
  /\ run.requests = MaxPages
  /\ run.called
  /\ Len(outcomes) = MaxPages
  /\ sync.status = "success"

\* C7: the state machine of a run.  A run writes a final status only if it has
\* written in_progress before.
C7_FinalAfterInProgress ==
  run.final # "" => run.marked

\* C8: window selection.  A run that is neither forced full nor given a start
\* date fetches from the time of the latest run that ended success minus the
\* lookback, whenever there is such a run, and without a bound only if no run
\* ever ended success.
C8_WindowSelection ==
  ( /\ run.active
    /\ pc \notin {"parse", "window", "except"}
    /\ ~run.force_full
    /\ run.start_date.form = "none" )
  => IF lastOk # NullTs
     THEN run.from_date = [bounded |-> TRUE, at |-> lastOk - LookbackDays]
     ELSE run.from_date = Unbounded

\* The positions of the batch whose processing raises on its own account.
Raising ==
  {i \in DOMAIN batch :
     batch[i].kind = "dict" /\
     (batch[i].defect # "none" \/ batch[i].updateDate.form = "garbled")}

\* The element at position i was written and is in the store after the return.
Stored(i) ==
  /\ db'.bills[batch[i].number].exists
  /\ db'.bills[batch[i].number].title = batch[i].title
  /\ batch[i].policy # NoPolicy =>
       <<batch[i].number, batch[i].policy>> \in db'.bill_tags

\* C9: per-record error isolation.  When one element of the batch raises, the
\* error counter is one, every other element is processed as if alone (none of
\* them is counted an error), and what was written for them is committed.
C9_ErrorIsolation ==
  [][ (ReturnStep /\ Cardinality(Raising) = 1)
      => /\ stats.error = 1
         /\ \A j \in DOMAIN batch \ Raising :
              /\ outcomes[j] # "error"
              /\ outcomes[j] \in Written => Stored(j) ]_vars

\* C10: per-record atomicity.  When the upsert of an element succeeded and its
\* tag write raised, the element's row is as before the call after the return,
\* and the other elements' writes are in the store.
C10_RecordAtomicity ==
  [][ ReturnStep
      => \A i \in DOMAIN batch :
           (batch[i].kind = "dict" /\ batch[i].defect = "bad_tag")
           => /\ db'.bills[batch[i].number] = db.bills[batch[i].number]
              /\ <<batch[i].number, batch[i].policy>> \in db'.bill_tags
                   => <<batch[i].number, batch[i].policy>> \in db.bill_tags
              /\ \A j \in DOMAIN batch \ {i} :
                   (Sound(batch[j]) /\ batch[j].updateDate.form # "garbled")
                   => (outcomes[j] # "skipped" => Stored(j)) ]_vars

\* C11: last writer wins by timestamp across runs.  When two runs of the list
\* sync overlapped, held versions of the same bill with updateDate u1 < u2, and
\* both have finished, the stored row holds the fields of the u2 version.
C11_LastWriterWins ==
  LET a == writers.run["A"]
      b == writers.run["B"]
      later == IF StripOffset(a.bill.updateDate) > StripOffset(b.bill.updateDate)
               THEN a.bill ELSE b.bill
  IN ( /\ a.pc = "done" /\ b.pc = "done"
       /\ writers.overlapped
       /\ a.bill.number = b.bill.number
       /\ ParsesAsIso(a.bill.updateDate) /\ ParsesAsIso(b.bill.updateDate)
       /\ StripOffset(a.bill.updateDate) # StripOffset(b.bill.updateDate) )
     => /\ db.bills[later.number].exists
        /\ db.bills[later.number].title = later.title
        /\ db.bills[later.number].upstream = StripOffset(later.updateDate)

\* C12: congress attribution is stable.  A stored bill number keeps the
\* congress its row was inserted with through every list sync, detail fetch
\* and enrichment run.
C12_CongressStable ==
  \A n \in BillNumbers :
    firstCongress[n] # NoCongress => congress[n] = firstCongress[n]

\* C13: retry policy.  execute calls the wrapped request at most max_retries
\* times; it returns the value of the first attempt that succeeds; the k-th
\* failed attempt (k = 0, 1, ...) that is followed by another attempt is
\* followed by a sleep of base_delay * 2^k; and when every attempt failed with
\* a request error, the error of the last attempt is raised and no value is
\* returned.
C13_RetryPolicy ==
  retry.state # "idle" =>
    /\ retry.calls <= retry.max_retries
    /\ retry.state = "returned" =>
         /\ retry.calls = Len(retry.failures) + 1
         /\ retry.value \in ReturnValues
    /\ Len(retry.slept) =
         IF retry.state = "raised" /\ retry.raised \in RequestErrors
         THEN Len(retry.failures) - 1 ELSE Len(retry.failures)
    /\ \A k \in DOMAIN retry.slept :
         retry.slept[k] = retry.base_delay * (2 ^ (k - 1))
    /\ Len(retry.failures) = retry.max_retries /\ retry.max_retries > 0 =>
         /\ retry.state = "raised"
         /\ retry.raised = retry.failures[retry.max_retries]
         /\ retry.value = ""

\* Witness of C13: all of the default three attempts failed, with two sleeps
\* between them, and the error of the third was raised.
C13_Witness ==
  /\ retry.max_retries = MaxRetries
  /\ retry.state = "raised"
  /\ retry.calls = MaxRetries
  /\ Len(retry.slept) = MaxRetries - 1
  /\ retry.failures[1] # retry.failures[MaxRetries]
  /\ retry.raised = retry.failures[MaxRetries]

\* C14: pagination count guard.  Against an upstream that reports a count
\* and a next indicator in every response, get_paginated issues no request at
\* an offset, past its first, that meets or exceeds the count.
C14_CountGuard ==
  ( /\ pager.fn = "get_paginated"
    /\ pager.reports_count
    /\ pager.always_next )
  => \A k \in DOMAIN pager.requests :
       k > 1 => pager.requests[k] < pager.total

\* The number of pages an upstream serves from `start` when it omits the next
\* indicator on the page that reaches the end.
RECURSIVE PagesFrom(_, _, _)
PagesFrom(start, limit, total) ==
  IF start + limit >= total THEN 1
  ELSE 1 + PagesFrom(start + limit, limit, total)

\* C15: pagination termination.  Against an upstream that serves N pages and
\* omits the next indicator on the N-th, with or without a count, get_paginated
\* never issues more than N requests, and when no request failed it returns
\* after exactly N requests, at offsets start, start + limit, ..., with the
\* items of the pages in page order.
C15_PaginationTermination ==
  ( /\ pager.fn = "get_paginated"
    /\ ~pager.always_next )
  => LET N == PagesFrom(pager.start, pager.limit, pager.total)
         rest == IF pager.total > pager.start
                 THEN pager.total - pager.start ELSE 0
     IN /\ Len(pager.requests) <= N
        /\ \A k \in DOMAIN pager.requests :
             pager.requests[k] = pager.start + (k - 1) * pager.limit
        /\ pager.state = "running" => Len(pager.requests) < N
        /\ pager.state = "returned" =>
             /\ Len(pager.requests) = N
             /\ pager.all_items = [i \in 1..rest |-> pager.start + i]

\* Witness of C15: a call that returned every item the upstream holds after
\* two requests with a page size of two, from an upstream that reports no count.
C15_Witness ==
  /\ pager.fn = "get_paginated"
  /\ ~pager.always_next
  /\ ~pager.reports_count
  /\ pager.state = "returned"
  /\ pager.limit = 2
  /\ Len(pager.requests) = 2
  /\ Len(pager.all_items) = MaxItems

\* The elements of the work list with a property.
CountWork(P(_)) ==
  Cardinality({k \in DOMAIN pool.work : P(pool.work[k])})

\* C16: commutative aggregation.  Whatever the order in which the workers of a
\* batch complete, and in sequential mode alike, the counters returned are
\* those of the work list: every element processed, the successes, the rest
\* failed, and for bills the historical ones.
C16_CommutativeAggregation ==
  pool.state = "returned" =>
    LET succeeded(item) == item.outcome = "success"
        failed(item) == item.outcome # "success"
        historical(item) == item.historical
    IN /\ pool.stats.processed = Len(pool.work)
       /\ pool.stats.success = CountWork(succeeded)
       /\ pool.stats.failed = CountWork(failed)
       /\ pool.stats.historical = CountWork(historical)

\* Witness of C16: a parallel run returned after a batch whose workers were
\* counted out of submission order, with a success, a failure and a
\* historical bill among them.
C16_Witness ==
  /\ pool.state = "returned"
  /\ pool.parallel
  /\ pool.out_of_order
  /\ pool.stats.success > 0
  /\ pool.stats.failed > 0
  /\ pool.stats.historical > 0

\* The fields whose absence is not to be reported of a historical bill.
ExemptFields ==
  {"summary", "policy_area", "subjects", "cosponsors"}

\* C17: historical exclusion.  A bill whose congress is in 6..42 is in no
\* result list of missing summary, policy area, subjects or cosponsors, of the
\* validation or of the sweep; a bill whose congress is a number outside
\* 6..42 and that lacks one of these is in the validation's list for it.
C17_HistoricalExclusion ==
  /\ (6 <= catalog.congress /\ catalog.congress <= 42)
       => reported.missing \cap ExemptFields = {}
  /\ ( /\ reported.by = "check_missing_details"
       /\ catalog.congress # NoCongress
       /\ (catalog.congress < 6 \/ catalog.congress > 42) )
     => /\ ~catalog.summary => "summary" \in reported.missing
        /\ ~catalog.policy_tag => "policy_area" \in reported.missing
  /\ ( /\ reported.by = "check_missing_enrichment"
       /\ catalog.congress # NoCongress
       /\ (catalog.congress < 6 \/ catalog.congress > 42) )
     => /\ ~catalog.subjects => "subjects" \in reported.missing
        /\ ~catalog.cosponsors => "cosponsors" \in reported.missing

\* The bill numbers of the form letters then digits: one or more letters
\* followed by one or more digits and nothing else.
LettersThenDigits(n) ==
  \E k \in 1..(Len(n) - 1) :
    /\ \A i \in 1..k : n[i] \in Letters
    /\ \A i \in (k + 1)..Len(n) : n[i] \in Digits

\* t is n lower-cased: no upper-case letter is left, and each character is
\* the one of n or its lower-case form.
IsLowerCased(t, n) ==
  /\ Len(t) = Len(n)
  /\ \A i \in 1..Len(n) :
       /\ ~\E pair \in CasePairs : pair[1] = t[i]
       /\ t[i] = n[i] \/ <<n[i], t[i]>> \in CasePairs

\* C18: bill-number round trip.  For a bill number of one or more letters
\* followed by one or more digits, parse_bill_number returns the letter prefix
\* lower-cased and the digit suffix, and the two concatenated are the number
\* lower-cased; for a string with no digit it returns the whole string
\* lower-cased and the empty string.
C18_RoundTrip ==
  parsed.state = "returned" =>
    /\ LettersThenDigits(bill_number) =>
         /\ \A i \in 1..Len(parsed.bill_type) :
              parsed.bill_type[i] \in Letters
         /\ Len(parsed.bill_type) >= 1
         /\ \A i \in 1..Len(parsed.number) : parsed.number[i] \in Digits
         /\ Len(parsed.number) >= 1
         /\ IsLowerCased(parsed.bill_type \o parsed.number, bill_number)
    /\ (\A i \in 1..Len(bill_number) : bill_number[i] \notin Digits) =>
         /\ IsLowerCased(parsed.bill_type, bill_number)
         /\ parsed.number = <<>>

\* C18 witness: "H12" has been parsed into "h" and "12".
C18_Witness ==
  /\ bill_number = <<"H", "1", "2">>
  /\ parsed.state = "returned"
  /\ parsed.bill_type = <<"h">>
  /\ parsed.number = <<"1", "2">>

\* The fixed status values.
StatusEnum ==
  {"Introduced", "In Committee", "Reported", "Passed House", "Passed Senate",
   "Resolving Differences", "To President", "Enacted", "Became Law", "Failed"}

\* A keyword occurs in the lower-cased action text.
Occurs(keyword) ==
  \E i \in 1..Len(action_text) : \E pair \in PhraseCase :
    /\ pair[1] = action_text[i]
    /\ keyword \in KeywordsOf(pair[2])

OccursAny(keywords) ==
  \E keyword \in keywords : Occurs(keyword)

\* The statuses the chamber keywords in the text allow.
ChamberStatuses ==
  (IF Occurs("house") THEN {"Passed House"} ELSE {}) \cup
    (IF Occurs("senate") THEN {"Passed Senate"} ELSE {})

\* The eight rules in their order: whether rule k matches the text, and the
\* statuses it gives.  introducing is the set of keywords of rule 7.
RuleMatches(k, introducing) ==
  CASE k = 1 -> OccursAny({"became law", "became public law"})
    [] k = 2 -> OccursAny({"enacted", "approved by president"})
    [] k = 3 -> Occurs("passed") /\ ChamberStatuses # {}
    [] k = 4 -> /\ Occurs("placed on")
                /\ Occurs("calendar")
                /\ OccursAny({"senate", "union calendar"})
    [] k = 5 -> OccursAny({"reported", "ordered to be reported"})
    [] k = 6 -> OccursAny({"referred to", "committee", "held at the desk"})
    [] k = 7 -> OccursAny(introducing)
    [] k = 8 -> /\ Occurs("motion to reconsider laid on the table agreed to")
                /\ ChamberStatuses # {}

RuleStatuses(k) ==
  CASE k = 1 -> {"Became Law"}
    [] k = 2 -> {"Enacted"}
    [] k \in {3, 8} -> ChamberStatuses
    [] k \in {4, 5} -> {"Reported"}
    [] k = 6 -> {"In Committee"}
    [] k = 7 -> {"Introduced"}

Precedence(introducing) ==
  normalized_status.state = "returned" =>
    LET matching == {k \in 1..8 : RuleMatches(k, introducing)}
    IN /\ normalized_status.status \in StatusEnum \cup {None}
       /\ matching = {} => normalized_status.status = None
       /\ matching # {} =>
            LET first == CHOOSE k \in matching : \A j \in matching : k <= j
            IN normalized_status.status \in RuleStatuses(first)

\* C19: status normalization precedence.  normalize_bill_status returns the
\* status of the first of the eight rules whose keywords occur in the
\* lower-cased action text, rule 7 having the keyword "introduced", and None
\* when no rule matches; the result is one of the fixed values or None.
C19_Precedence ==
  Precedence({"introduced"})

\* C19 as amended: the same with rule 7 having the keywords "introduced" and
\* "introduction".
C19_PrecedenceAmended ==
  Precedence({"introduced", "introduction"})

\* C19 witness: a text in which rules 5 and 6 both match has been given the
\* status of rule 5.
C19_Witness ==
  /\ action_text = <<"committee", "Ordered to be Reported">>
  /\ normalized_status.state = "returned"
  /\ normalized_status.status = "Reported"

\* The importance of a type: Public Law 1, Enrolled Bill 2, Engrossed 3,
\* Placed on Calendar 4, any other type 999.
Importance(type) ==
  CASE type = "Public Law" -> 1
    [] type = "Enrolled Bill" -> 2
    [] type \in {"Engrossed in Senate", "Engrossed in House"} -> 3
    [] type \in {"Placed on Calendar Senate", "Placed on Calendar House"} -> 4
    [] OTHER -> 999

\* C20: text-version ordering.  The returned versions are those given, a
\* null date replaced by the introduced date and flagged is_initial_version,
\* in the order of date descending and, among equal dates, of type importance
\* ascending: an Engrossed version precedes a version of an unlisted type of
\* the same date.
C20_TextVersionOrdering ==
  sorted_versions.state = "returned" =>
    LET given == versions.list
        returned == sorted_versions.list
        introduced == versions.introduced_date
    IN /\ Len(returned) = Len(given)
       /\ \A i \in 1..Len(given) :
            \E j \in 1..Len(returned) :
              /\ returned[j].type = given[i].type
              /\ IF given[i].date = NullDate /\ introduced # NullDate
                   THEN /\ returned[j].date = introduced
                        /\ returned[j].is_initial_version
                   ELSE returned[j].date = given[i].date
       /\ \A i, j \in 1..Len(returned) :
            i < j =>
              \/ returned[i].date > returned[j].date
              \/ /\ returned[i].date = returned[j].date
                 /\ Importance(returned[i].type) <= Importance(returned[j].type)

\* C21: an empty list payload is a skip.  A bill whose payload is an empty
\* list is not counted as failed by process_bill_batch: on return failed is at
\* most the number of bills with another payload.
C21_EmptyListIsSkip ==
  (pool.state = "returned" /\ pool.fn = "process_bill_batch") =>
    LET notEmpty(item) == item.payload # "empty list"
    IN pool.stats.failed <= CountWork(notEmpty)

\* C22: a dry run writes nothing.  With the dry-run flag set no element is
\* ever processed, no upstream request is issued and no store row is written;
\* the command ends having logged the selected elements.
C22_DryRunWritesNothing ==
  pool.dry_run =>
    /\ pool.fetched = {}
    /\ pool.written = {}
    /\ pool.stats.processed = 0
    /\ pool.queued = {} /\ pool.running = {}
    /\ pool.state \in {"selected", "exited"}
    /\ (pool.state = "exited" /\ pool.work # <<>>) =>
         pool.logged = DOMAIN pool.work

\* C22 witness: a dry run of a parallel command over three selected elements
\* has ended.
C22_Witness ==
  /\ pool.dry_run
  /\ pool.parallel
  /\ Len(pool.work) = 3
  /\ pool.state = "exited"
  /\ pool.logged = {1, 2, 3}

\* The batch of element k: 0 for the first batch_size elements, and so on.
BatchOf(k) ==
  (k - 1) \div pool.batch_size

\* C23: batch barrier and bounded pool.  In parallel mode an element is being
\* processed, or has been, only when every element of the batches before its
\* own has completed, and never more than 4 elements are being processed at
\* the same time.
C23_BarrierAndBound ==
  pool.parallel =>
    /\ \A k \in pool.running \cup pool.fetched :
         \A j \in DOMAIN pool.work :
           BatchOf(j) < BatchOf(k) => j \in pool.fetched
    /\ Cardinality(pool.running) <= 4

\* C23 witness: four elements of a batch of five are being processed and the
\* fifth waits for a thread.
C23_Witness ==
  /\ pool.parallel
  /\ Cardinality(pool.running) = 4
  /\ pool.queued # {}

\* C23 witness of the barrier: an element of the second batch is being
\* processed in a thread, all of the first batch having completed.
C23_SecondBatchRuns ==
  /\ pool.parallel
  /\ \E k \in pool.running : BatchOf(k) = 1
  /\ Cardinality(pool.fetched) = pool.batch_size

\* The full party names republican, democrat, independent, libertarian and
\* green, as positions of the party map.
FullNames ==
  {1, 4, 7, 9, 11}

\* C24: party normalization.  An input whose trimmed lower-case form contains
\* exactly one of the full party names as a substring is mapped to that
\* party's name and code; an input that matches no variant is returned
\* verbatim with its upper-cased first character as code.
C24_PartyNormalization ==
  (party_result.state = "returned" /\ party # <<>>) =>
    LET party_lower == Strip(Lower(party))
        contained == {k \in FullNames :
                        IsSubstring(PartyMap[k].key, party_lower)}
        variants == {k \in 1..Len(PartyMap) :
                       IsSubstring(PartyMap[k].key, party_lower)}
    IN /\ Cardinality(contained) = 1 =>
            \E k \in contained :
              /\ party_result.standard = PartyMap[k].name
              /\ party_result.code = PartyMap[k].code
       /\ variants = {} =>
            /\ party_result.name = party
            /\ party_result.code = Upper(party[1])

\* C25: list payload selection.  For a non-empty list payload get_bill_data
\* returns an entry of the list whose updateDate string (the empty string
\* when missing) is greater than or equal to that of every entry; for a dict
\* payload it returns the payload.
C25_ListSelection ==
  selected_bill.state = "returned" =>
    /\ (bill_payload.kind = "list" /\ bill_payload.entries # <<>>) =>
         /\ selected_bill.found
         /\ \E i \in 1..Len(bill_payload.entries) :
              selected_bill.entry = bill_payload.entries[i]
         /\ \A i \in 1..Len(bill_payload.entries) :
              ~StringLess(selected_bill.entry.updateDate,
                          bill_payload.entries[i].updateDate)
    /\ bill_payload.kind = "dict" =>
         selected_bill.found /\ selected_bill.entry = bill_payload.entries[1]

\* C25 witness: of the entries dated "12" and "2" the second was returned.
C25_Witness ==
  /\ bill_payload.kind = "list"
  /\ Len(bill_payload.entries) = 2
  /\ bill_payload.entries[1].updateDate = <<1, 2>>
  /\ bill_payload.entries[2].updateDate = <<2>>
  /\ selected_bill.state = "returned"
  /\ selected_bill.entry = bill_payload.entries[2]

\* A step of member enrichment.
EnrichmentStep ==
  enrichment' # enrichment

\* C26: the known-bills cache is read-only.  Once built, the cache is not
\* modified for the rest of the run; an item whose bill number is not in the
\* cache is counted as skipped and writes nothing; and no step of enrichment
\* creates a bill row.
C26_CacheReadOnly ==
  [][ /\ (enrichment.pc # "idle") => known_bills' = known_bills
      /\ (EnrichmentStep /\ enrichment'.item # enrichment.item
            /\ enrichment'.item.number \in BillNumbers \ known_bills)
           => /\ enrichment'.item.skipped
              /\ congress' = congress
      /\ EnrichmentStep =>
           \A n \in BillNumbers :
             congress[n] = NoCongress => congress'[n] = NoCongress ]_vars

\* C26 witness: an item was skipped because its bill is not in the cache,
\* although the list sync has stored the bill since the cache was built.
C26_Witness ==
  /\ enrichment.item.skipped
  /\ enrichment.item.number \in BillNumbers
  /\ enrichment.item.number \notin known_bills
  /\ congress[enrichment.item.number] # NoCongress

\* C30: resume after a failed member.  A run that found the status row
\* failed with 'Error processing member X: ...' selects the current members
\* after X only; a run that found no such failure selects all current members.
C30_ResumeAfterFailure ==
  enrichment.pc = "loop" =>
    LET failed == enrichment.at_start.status = "failed"
                    /\ enrichment.at_start.last_error.kind = "member"
        X == enrichment.at_start.last_error.member
    IN /\ failed => enrichment.selected = {m \in 1..MaxMembers : m > X}
       /\ ~failed => enrichment.selected = 1..MaxMembers

\* C27: crash detectability under overlapping runs.  While any run of the
\* endpoint is between its in_progress write and its final status write, a
\* crashed run included, the status row of the endpoint reads in_progress,
\* whatever other runs of the endpoint have started or finished meanwhile.
C27_CrashDetectable ==
  (\E r \in SyncRuns : endpoint.runs[r] \in {"fetching", "crashed"})
    => endpoint.row.status = "in_progress"

\* C28: stats partition.  When update_database returns, inserted + updated
\* + skipped + error equals the number of input records and historical is at
\* most that number.
C28_StatsPartition ==
  (pc \in {"returned", "final"} /\ (run.active => run.called))
    => /\ stats.inserted + stats.updated + stats.skipped + stats.error
            = Len(batch)
       /\ stats.historical <= Len(batch)

\* C28 witness: a call returned a batch of two with a historical bill counted
\* and an element counted as an error.
C28_Witness ==
  /\ pc = "returned"
  /\ Len(batch) = 2
  /\ stats.historical = 1
  /\ stats.error = 1

\* The j-th run of batch_size consecutive positions of a list of n elements.
ConsecutiveBatch(j, batch_size, n) ==
  {k \in 1..n : (j - 1) * batch_size < k /\ k <= j * batch_size}

\* C29: exactly-once batch processing.  When process_bill_batch or
\* process_member_batch returns, sequential or parallel, every element of the
\* work list was processed exactly once, the batches taken were the runs of
\* batch_size consecutive elements in order (the last possibly shorter), and
\* processed = total = success + failed = the length of the list.
C29_ExactlyOnce ==
  pool.state = "returned" =>
    LET n == Len(pool.work)
        bs == pool.batch_size
    IN /\ \A k \in 1..MaxLoad :
            pool.times[k] = IF k \in DOMAIN pool.work THEN 1 ELSE 0
       /\ Len(pool.batches) = (n + bs - 1) \div bs
       /\ \A j \in DOMAIN pool.batches :
            /\ pool.batches[j] = ConsecutiveBatch(j, bs, n)
            /\ pool.batches[j] # {}
       /\ pool.stats.total = n
       /\ pool.stats.processed = pool.stats.total
       /\ pool.stats.total = pool.stats.success + pool.stats.failed

\* C29 witness: a parallel call returned after a full batch and a shorter
\* last batch, with an element that failed.
C29_Witness ==
  /\ pool.state = "returned"
  /\ pool.parallel
  /\ Len(pool.batches) = 2
  /\ Cardinality(pool.batches[1]) = pool.batch_size
  /\ Cardinality(pool.batches[2]) < pool.batch_size
  /\ pool.stats.failed > 0

====
